---- MODULE Spec2Model ----
(***************************************************************************)
(* A model of the televent bot: the per-user event-creation dialogue      *)
(* (event_contexts), the two-table store (events, attendees) and the       *)
(* messages the handlers send.  The library bot is src/src/bot.rs; the     *)
(* binary's own copy of the bot is src/src/main.rs.  Every handler is an   *)
(* operator from the bot's state and one update to the bot's state after   *)
(* the update, the platform calls it made and the Result it returned.      *)
(***************************************************************************)
EXTENDS Integers, Sequences, FiniteSets, TLC

VARIABLES
    event_contexts,  \* Bot.event_contexts: the HashMap's entries
    events,          \* rows of table events
    attendees,       \* rows of table attendees
    seq,             \* sqlite_sequence of events: the largest id ever given
    sent,            \* platform calls that succeeded while handling the last update
    result,          \* what the last handler returned
    running,         \* run() has not returned
    update_id,       \* updates retrieved so far
    subject,         \* event.rs: the text or the Event handed to the renderer
    rendered,        \* event.rs: the String the renderer returned, piece by piece
    updates,         \* the platform: the updates it has received, by update_id
    confirmed,       \* the platform: the update_id up to which updates are confirmed
    offset,          \* run(): update_params.offset, 0 while it is not set
    response,        \* run(): what is left of response.result in the for loop
    handled          \* the update_ids whose handler has returned Ok(()), in order

render_vars == <<subject, rendered>>

poll_vars == <<updates, confirmed, offset, response, handled>>

vars == <<event_contexts, events, attendees, seq, sent, result, running, update_id,
          subject, rendered, updates, confirmed, offset, response, handled>>

\* no Event and nothing handed to the renderer
NoEvent == [title |-> <<>>, description |-> <<>>, event_date |-> <<>>,
            location |-> <<>>, accepted |-> <<>>, declined |-> <<>>]

NoSubject == [kind |-> "none", text |-> <<>>, event |-> NoEvent]

\* the specifications of the bot keep the renderer out of the state
Unrendered == subject = NoSubject /\ rendered = <<>>

\* the specifications of one handler after the other keep the polling out of the state
Unpolled ==
    /\ updates = <<>> /\ confirmed = 0 /\ offset = 0
    /\ response = <<>> /\ handled = <<>>

----------------------------------------------------------------------------
(* Bounds of the model *)

MaxEvents == 1
MaxUpdates == 5
\* updates handled on a store that earlier runs filled
MaxArchiveUpdates == 2

\* updates handled in a run that creates events after deletions
MaxSequenceUpdates == 7
\* characters of a text handed to escape_markdown
MaxLen == 3
\* updates the platform receives, and handler runs, while run() is followed
MaxPolled == 2
MaxHandled == 3

Users == {7, 8}
Groups == {100, 200}

\* the private conversation of a user has the user's id as chat id
Chats == Users \cup Groups

Commands == {"/create", "/list", "/cancel", "/myevents", "/help"}
FreeTexts == {"Picnic", "2025-08-15 19:00"}
NoText == "<none>"
Texts == Commands \cup FreeTexts

----------------------------------------------------------------------------
(* event.rs: the draft *)

AwaitingTitle == "AwaitingTitle"
AwaitingDescription == "AwaitingDescription"
AwaitingLocation == "AwaitingLocation"
AwaitingTime == "AwaitingTime"

EventCreationState == {AwaitingTitle, AwaitingDescription, AwaitingLocation, AwaitingTime}

\* EventDraft::default(): four empty strings
EventDraft == [title |-> "", description |-> "", location |-> "", datetime |-> ""]

EventContext(origin_chat_id, draft, state) ==
    [origin_chat_id |-> origin_chat_id, draft |-> draft, state |-> state]

\* HashMap<i64, EventContext> as its set of entries
contains_key(map, k) == \E e \in map : e.key = k

get(map, k) == (CHOOSE e \in map : e.key = k).value

\* insert that leaves the entry the key already has beside the new one
insert_beside(map, k, v) == map \cup {[key |-> k, value |-> v]}

insert(map, k, v) == {e \in map : e.key # k} \cup {[key |-> k, value |-> v]}

\* remove that clears the map
remove_all(map, k) == {}

remove(map, k) == {e \in map : e.key # k}

----------------------------------------------------------------------------
(* Dates.  DATETIME_FORMAT and DB_DATETIME_FORMAT are imported by bot.rs   *)
(* from event.rs; the input format is YYYY-MM-DD HH:MM.                     *)

\* the numeric fields a text of the shape YYYY-MM-DD HH:MM carries, <<>> for
\* a text of another shape
DATETIME_FORMAT(text) ==
    CASE text = "2025-08-15 19:00" -> <<2025, 8, 15, 19, 0>>
      [] text = "2025-02-30 19:00" -> <<2025, 2, 30, 19, 0>>
      [] OTHER -> <<>>

IsLeap(y) == (y % 4 = 0 /\ y % 100 # 0) \/ y % 400 = 0

DaysInMonth(y, m) ==
    IF m = 2 THEN (IF IsLeap(y) THEN 29 ELSE 28)
    ELSE IF m \in {4, 6, 9, 11} THEN 30 ELSE 31

\* NaiveDateTime::parse_from_str: Ok with the date-time, or a ParseError
parse_datetime_string(datetime_str) ==
    LET fld == DATETIME_FORMAT(datetime_str) IN
    IF fld = <<>> THEN [ok |-> FALSE, value |-> <<>>]
    ELSE IF /\ fld[2] \in 1..12
            /\ fld[3] \in 1..DaysInMonth(fld[1], fld[2])
            /\ fld[4] \in 0..23
            /\ fld[5] \in 0..59
         THEN [ok |-> TRUE, value |-> fld]
         ELSE [ok |-> FALSE, value |-> <<>>]

\* datetime.format(DB_DATETIME_FORMAT): the stored text, as its fields
\* year, month, day, hour, minute, second
DB_DATETIME_FORMAT(datetime) ==
    <<datetime[1], datetime[2], datetime[3], datetime[4], datetime[5], 0>>

----------------------------------------------------------------------------
(* Texts of the messages the bot sends *)

GROUP_ONLY_MESSAGE == "Please initiate event creation in a group chat."
TITLE_PROMPT == "Please enter the Title of the event. To exit, type /cancel."
HELP_MESSAGE == "To create an event, you need to start a private chat with me first."
DESCRIPTION_PROMPT == "Please enter an Event description."
LOCATION_PROMPT == "Please enter the Location of the event."
DATETIME_PROMPT == "Please enter the Date and Time of the event in the following format YYYY-MM-DD HH:MM"
MAIN_DATETIME_PROMPT == "Please enter the Date and Time the event takes place."
CREATED_MESSAGE == "The Event has been created and posted to the group!"
DATETIME_ERROR == "Sorry, that doesn't look like a valid date/time. Please use the format YYYY-MM-DD HH:MM"
CANCELLED_MESSAGE == "Event creation cancelled."
HELP_TEXT == "Available commands:"
NO_EVENTS_MESSAGE == "No events scheduled."
NO_MY_EVENTS_MESSAGE == "You have not created any events."
DELETED_MESSAGE == "Event has been deleted."
EVENT_TEXT == "<event>"

----------------------------------------------------------------------------
(* One handler run: the bot's state, the calls made so far and their       *)
(* outcomes.  A fault plan f names the platform call and the storage       *)
(* statement that fail during the run (0: none).                           *)

NoFault == [tg |-> 0, err |-> "ok", tg2 |-> FALSE, db |-> 0]

\* outcomes of a platform call: Api error 403, Api error 400 "message is not
\* modified", another Api error 400, any other error
TgErrors == {"403", "400nm", "400", "err"}

Start(ctx, ev, att, sq) ==
    [event_contexts |-> ctx, events |-> ev, attendees |-> att, seq |-> sq,
     sent |-> <<>>, tgc |-> 0, dbc |-> 0, out |-> "ok", event |-> <<>>, ids |-> <<>>,
     res |-> "Ok"]

Ok(X) == [X EXCEPT !.res = "Ok"]

Err(X, e) == [X EXCEPT !.res = e]

\* a call of the platform API (frankenstein): it succeeds and is recorded, or fails
api_call(X, f, call) ==
    LET n == X.tgc + 1
        o == IF f.tg = n THEN f.err
             ELSE IF f.tg2 /\ f.tg # 0 /\ n = f.tg + 1 THEN "err"
             ELSE "ok"
    IN [X EXCEPT !.tgc = n, !.out = o,
                 !.sent = IF o = "ok" THEN Append(@, call) ELSE @]

\* a statement executed on the pool: it runs, or fails (connectivity)
db_exec(X, f) ==
    LET n == X.dbc + 1
    IN [X EXCEPT !.dbc = n, !.out = IF f.db = n THEN "dberr" ELSE "ok"]

Message(call, chat_id, text, event, keyboard) ==
    [call |-> call, chat_id |-> chat_id, text |-> text, event |-> event,
     keyboard |-> keyboard]

send_message(X, f, chat_id, text) ==
    LET Y == api_call(X, f, Message("send", chat_id, text, <<>>, {}))
    IN IF Y.out = "ok" THEN Ok(Y) ELSE Err(Y, "Telegram")

----------------------------------------------------------------------------
(* event.rs: the fully loaded event and its controls *)

\* format!("accepted_{}", id) as the text before the first '_' and the text after it
CallbackData(action, id) == <<action, ToString(id)>>

\* a parse that reads a text that is no decimal number as 0
ParseI64_lenient(text) ==
    IF \E i \in 0..(MaxEvents + 1) : ToString(i) = text
    THEN [ok |-> TRUE, value |-> CHOOSE i \in 0..(MaxEvents + 1) : ToString(i) = text]
    ELSE [ok |-> TRUE, value |-> 0]

\* str::parse::<i64> of the text after the '_': the ids in decimal, else a ParseIntError
ParseI64(text) ==
    IF \E i \in 0..(MaxEvents + 1) : ToString(i) = text
    THEN [ok |-> TRUE, value |-> CHOOSE i \in 0..(MaxEvents + 1) : ToString(i) = text]
    ELSE [ok |-> FALSE, value |-> 0]

\* the users of a set in ascending order
RECURSIVE Ascending(_)
Ascending(S) ==
    IF S = {} THEN <<>>
    ELSE LET m == CHOOSE x \in S : \A y \in S : x <= y
         IN <<m>> \o Ascending(S \ {m})

\* create_keyboard with the Delete control shown to the creator in every view
create_keyboard_creator(event, viewer_id, public) ==
    {CallbackData("accepted", event.id), CallbackData("declined", event.id)}
    \cup (IF event.creator = viewer_id
          THEN {CallbackData("deleted", event.id)} ELSE {})

create_keyboard(event, viewer_id, public) ==
    {CallbackData("accepted", event.id), CallbackData("declined", event.id)}
    \cup (IF ~public /\ event.creator = viewer_id
          THEN {CallbackData("deleted", event.id)} ELSE {})

\* Event::from_row, then the attendee rows pushed on accepted or declined
LoadEvent(row, rows) ==
    [id |-> row.id, title |-> row.title, description |-> row.description,
     location |-> row.location, event_date |-> row.event_date, creator |-> row.creator,
     accepted |-> Ascending({r.user_id : r \in {q \in rows : q.status = "accepted"}}),
     declined |-> Ascending({r.user_id : r \in {q \in rows : q.status = "declined"}})]

----------------------------------------------------------------------------
(* bot.rs: storage *)

Statuses == {"accepted", "declined"}

\* fetch_event: out is "ok" with the event in X.event, "RowNotFound" or "dberr"
fetch_event(X, f, event_id) ==
    LET D1 == db_exec(X, f) IN
    IF D1.out # "ok" THEN D1
    ELSE IF ~\E e \in D1.events : e.id = event_id THEN [D1 EXCEPT !.out = "RowNotFound"]
    ELSE LET row == CHOOSE e \in D1.events : e.id = event_id
             D2 == db_exec(D1, f)
         IN IF D2.out # "ok" THEN D2
            ELSE [D2 EXCEPT !.event =
                     <<LoadEvent(row, {a \in D2.attendees : a.event_id = event_id})>>]

\* INSERT INTO attendees: the primary key, the CHECK on status and the foreign key
insert_attendee(X, f, row) ==
    LET D == db_exec(X, f) IN
    IF D.out # "ok" THEN D
    ELSE IF \/ \E a \in D.attendees : a.event_id = row.event_id /\ a.user_id = row.user_id
            \/ row.status \notin Statuses
            \/ ~\E e \in D.events : e.id = row.event_id
         THEN [D EXCEPT !.out = "dberr"]
         ELSE [D EXCEPT !.attendees = @ \cup {row}]

\* update_attendance with the same-status arm writing the status again
update_attendance_keep(X, f, event_id, user_id, status) ==
    LET D1 == db_exec(X, f)
        exists == {a \in D1.attendees : a.event_id = event_id /\ a.user_id = user_id}
        D2 == db_exec(D1, f)
        row == [event_id |-> event_id, user_id |-> user_id, status |-> status]
    IN
    IF D1.out # "ok" THEN D1
    ELSE IF D2.out # "ok" THEN D2
    ELSE [D2 EXCEPT !.attendees = (@ \ exists) \cup {row}]

\* update_attendance with the UPDATE arm adding a row beside the stored one
update_attendance_add(X, f, event_id, user_id, status) ==
    LET D1 == db_exec(X, f)
        exists == {a \in D1.attendees : a.event_id = event_id /\ a.user_id = user_id}
        D2 == db_exec(D1, f)
        row == [event_id |-> event_id, user_id |-> user_id, status |-> status]
    IN
    IF D1.out # "ok" THEN D1
    ELSE IF D2.out # "ok" THEN D2
    ELSE IF row \in exists THEN [D2 EXCEPT !.attendees = @ \ exists]
    ELSE [D2 EXCEPT !.attendees = @ \cup {row}]

\* update_attendance with the delete arm taken on every accept of a stored row
update_attendance_set(X, f, event_id, user_id, status) ==
    LET D1 == db_exec(X, f)
        exists == {a \in D1.attendees : a.event_id = event_id /\ a.user_id = user_id}
        D2 == db_exec(D1, f)
        row == [event_id |-> event_id, user_id |-> user_id, status |-> status]
    IN
    IF D1.out # "ok" THEN D1
    ELSE IF D2.out # "ok" THEN D2
    ELSE IF exists # {} /\ status = "accepted" THEN [D2 EXCEPT !.attendees = @ \ exists]
    ELSE [D2 EXCEPT !.attendees = (@ \ exists) \cup {row}]

\* update_attendance with the DELETE of the same-status arm lacking AND user_id = ?
update_attendance_event(X, f, event_id, user_id, status) ==
    LET D1 == db_exec(X, f)
        exists == {a \in D1.attendees : a.event_id = event_id /\ a.user_id = user_id}
    IN
    IF D1.out # "ok" THEN D1
    ELSE IF exists # {}
         THEN LET current_status == (CHOOSE a \in exists : TRUE).status
                  D2 == db_exec(D1, f)
              IN IF D2.out # "ok" THEN D2
                 ELSE IF current_status = status
                      THEN [D2 EXCEPT !.attendees = {a \in @ : a.event_id # event_id}]
                      ELSE IF status \notin Statuses THEN [D2 EXCEPT !.out = "dberr"]
                      ELSE [D2 EXCEPT !.attendees =
                               (@ \ exists) \cup
                               {[event_id |-> event_id, user_id |-> user_id, status |-> status]}]
         ELSE insert_attendee(D1, f,
                  [event_id |-> event_id, user_id |-> user_id, status |-> status])

update_attendance(X, f, event_id, user_id, status) ==
    LET D1 == db_exec(X, f)
        exists == {a \in D1.attendees : a.event_id = event_id /\ a.user_id = user_id}
    IN
    IF D1.out # "ok" THEN D1
    ELSE IF exists # {}
         THEN LET current_status == (CHOOSE a \in exists : TRUE).status
                  D2 == db_exec(D1, f)
              IN IF D2.out # "ok" THEN D2
                 ELSE IF current_status = status
                      THEN [D2 EXCEPT !.attendees = @ \ exists]
                      ELSE IF status \notin Statuses THEN [D2 EXCEPT !.out = "dberr"]
                      ELSE [D2 EXCEPT !.attendees =
                               (@ \ exists) \cup
                               {[event_id |-> event_id, user_id |-> user_id, status |-> status]}]
         ELSE insert_attendee(D1, f,
                  [event_id |-> event_id, user_id |-> user_id, status |-> status])

\* delete_event removing the event row only
delete_event_row_only(X, f, event_id) ==
    LET D1 == db_exec(X, f) IN
    IF D1.out # "ok" THEN Err(D1, "Database")
    ELSE LET D2 == db_exec(D1, f)
         IN IF D2.out # "ok" THEN Err(D2, "Database")
            ELSE Ok([D2 EXCEPT !.events = {e \in @ : e.id # event_id}])

delete_event(X, f, event_id) ==
    LET D1 == db_exec(X, f) IN
    IF D1.out # "ok" THEN Err(D1, "Database")
    ELSE LET A == [D1 EXCEPT !.attendees = {a \in @ : a.event_id # event_id}]
             D2 == db_exec(A, f)
         IN IF D2.out # "ok" THEN Err(D2, "Database")
            ELSE Ok([D2 EXCEPT !.events = {e \in @ : e.id # event_id}])

list_event(X, f, chat_id, event, viewer_id, public) ==
    LET Y == api_call(X, f, Message("send", chat_id, EVENT_TEXT, <<event>>,
                                    create_keyboard(event, viewer_id, public)))
    IN IF Y.out = "ok" THEN Ok(Y) ELSE Err(Y, "Telegram")

\* create_event posting to the group before the INSERT
create_event_post_first(X, f, creator, chat_id, draft, datetime) ==
    LET db_datetime_str == DB_DATETIME_FORMAT(datetime)
        event_id == X.seq + 1
        row == [id |-> event_id, creator |-> creator, title |-> draft.title,
                description |-> draft.description, location |-> draft.location,
                event_date |-> db_datetime_str, chat_id |-> chat_id]
        G == list_event(X, f, chat_id, LoadEvent(row, {}), creator, TRUE)
        D == db_exec(G, f)
        I == [D EXCEPT !.seq = event_id, !.events = @ \cup {row}]
        F == fetch_event(I, f, event_id)
    IN
    IF G.res # "Ok" THEN G
    ELSE IF D.out # "ok" THEN Err(D, "Database")
    ELSE IF F.out # "ok" THEN Err(F, "Database")
    ELSE list_event(F, f, creator, F.event[1], creator, FALSE)

\* create_event storing the event under id 1 with INSERT OR REPLACE
create_event_replace(X, f, creator, chat_id, draft, datetime) ==
    LET db_datetime_str == DB_DATETIME_FORMAT(datetime)
        D == db_exec(X, f)
        event_id == 1
        I == [D EXCEPT !.seq = IF @ = 0 THEN 1 ELSE @,
                       !.events = {e \in @ : e.id # event_id}
                                  \cup {[id |-> event_id, creator |-> creator,
                                         title |-> draft.title,
                                         description |-> draft.description,
                                         location |-> draft.location,
                                         event_date |-> db_datetime_str,
                                         chat_id |-> chat_id]}]
        F == fetch_event(I, f, event_id)
    IN
    IF D.out # "ok" THEN Err(D, "Database")
    ELSE IF F.out # "ok" THEN Err(F, "Database")
    ELSE LET G == list_event(F, f, chat_id, F.event[1], creator, TRUE) IN
         IF G.res # "Ok" THEN G
         ELSE list_event(G, f, creator, F.event[1], creator, FALSE)

\* create_event on a table without AUTOINCREMENT: the id is the largest
\* stored id plus one
create_event_rowid(X, f, creator, chat_id, draft, datetime) ==
    LET db_datetime_str == DB_DATETIME_FORMAT(datetime)
        D == db_exec(X, f)
        event_id == IF D.events = {} THEN 1
                    ELSE 1 + (CHOOSE i \in {e.id : e \in D.events} :
                                \A e \in D.events : e.id <= i)
        I == [D EXCEPT !.seq = event_id,
                       !.events = @ \cup {[id |-> event_id, creator |-> creator,
                                           title |-> draft.title,
                                           description |-> draft.description,
                                           location |-> draft.location,
                                           event_date |-> db_datetime_str,
                                           chat_id |-> chat_id]}]
        F == fetch_event(I, f, event_id)
    IN
    IF D.out # "ok" THEN Err(D, "Database")
    ELSE IF F.out # "ok" THEN Err(F, "Database")
    ELSE LET G == list_event(F, f, chat_id, F.event[1], creator, TRUE) IN
         IF G.res # "Ok" THEN G
         ELSE list_event(G, f, creator, F.event[1], creator, FALSE)

create_event(X, f, creator, chat_id, draft, datetime) ==
    LET db_datetime_str == DB_DATETIME_FORMAT(datetime)
        D == db_exec(X, f)
        event_id == D.seq + 1
        I == [D EXCEPT !.seq = event_id,
                       !.events = @ \cup {[id |-> event_id, creator |-> creator,
                                           title |-> draft.title,
                                           description |-> draft.description,
                                           location |-> draft.location,
                                           event_date |-> db_datetime_str,
                                           chat_id |-> chat_id]}]
        F == fetch_event(I, f, event_id)
    IN
    IF D.out # "ok" THEN Err(D, "Database")
    ELSE IF F.out # "ok" THEN Err(F, "Database")
    ELSE LET G == list_event(F, f, chat_id, F.event[1], creator, TRUE) IN
         IF G.res # "Ok" THEN G
         ELSE list_event(G, f, creator, F.event[1], creator, FALSE)

----------------------------------------------------------------------------
(* bot.rs: listings *)

\* the order of two stored event_date texts (zero-padded fields, compared as text)
RECURSIVE TextLess(_, _)
TextLess(a, b) ==
    IF a = <<>> \/ b = <<>> THEN a = <<>> /\ b # <<>>
    ELSE IF a[1] # b[1] THEN a[1] < b[1]
    ELSE TextLess(Tail(a), Tail(b))

\* the ids in the order the rows were inserted
OrderByRowId(rows) == Ascending({r.id : r \in rows})

\* SELECT id ... ORDER BY event_date: rows of equal event_date in id order
RECURSIVE OrderByEventDate(_)
OrderByEventDate(rows) ==
    IF rows = {} THEN <<>>
    ELSE LET m == CHOOSE r \in rows : \A q \in rows :
                      \/ q = r
                      \/ TextLess(r.event_date, q.event_date)
                      \/ (r.event_date = q.event_date /\ r.id < q.id)
         IN <<m.id>> \o OrderByEventDate(rows \ {m})

\* the loop of fetch_events and of list_my_events: fetch_event per id, stop at an error
RECURSIVE FetchAll(_, _, _, _)
FetchAll(X, f, ids, acc) ==
    IF ids = <<>> THEN [X EXCEPT !.out = "ok", !.event = acc]
    ELSE LET F == fetch_event(X, f, Head(ids)) IN
         IF F.out # "ok" THEN F
         ELSE FetchAll(F, f, Tail(ids), acc \o F.event)

fetch_events(X, f, chat_id) ==
    LET D == db_exec(X, f)
        event_ids == OrderByEventDate({e \in D.events : e.chat_id = chat_id})
    IN IF D.out # "ok" THEN D ELSE FetchAll(D, f, event_ids, <<>>)

RECURSIVE ListAll(_, _, _, _, _, _)
ListAll(X, f, chat_id, evs, viewer_id, public) ==
    IF evs = <<>> THEN Ok(X)
    ELSE LET Y == list_event(X, f, chat_id, Head(evs), viewer_id, public) IN
         IF Y.res # "Ok" THEN Y
         ELSE ListAll(Y, f, chat_id, Tail(evs), viewer_id, public)

list_events(X, f, chat_id, viewer_id) ==
    LET F == fetch_events(X, f, chat_id) IN
    IF F.out # "ok" THEN Err(F, "Database")
    ELSE IF F.event = <<>> THEN send_message(F, f, chat_id, NO_EVENTS_MESSAGE)
    ELSE ListAll(F, f, chat_id, F.event, viewer_id, TRUE)

\* for id in event_ids { fetch_event(id)?; list_event(...)? }
RECURSIVE ListMine(_, _, _, _)
ListMine(X, f, user_id, ids) ==
    IF ids = <<>> THEN Ok(X)
    ELSE LET F == fetch_event(X, f, Head(ids)) IN
         IF F.out # "ok" THEN Err(F, "Database")
         ELSE LET Y == list_event(F, f, user_id, F.event[1], user_id, FALSE) IN
              IF Y.res # "Ok" THEN Y ELSE ListMine(Y, f, user_id, Tail(ids))

\* list_my_events without the WHERE creator = ?
list_my_events_everyone(X, f, user_id) ==
    LET D == db_exec(X, f)
        event_ids == Ascending({e.id : e \in D.events})
    IN IF D.out # "ok" THEN Err(D, "Database")
       ELSE IF event_ids = <<>> THEN send_message(D, f, user_id, NO_MY_EVENTS_MESSAGE)
       ELSE ListMine(D, f, user_id, event_ids)

list_my_events(X, f, user_id) ==
    LET D == db_exec(X, f)
        event_ids == Ascending({e.id : e \in {q \in D.events : q.creator = user_id}})
    IN IF D.out # "ok" THEN Err(D, "Database")
       ELSE IF event_ids = <<>> THEN send_message(D, f, user_id, NO_MY_EVENTS_MESSAGE)
       ELSE ListMine(D, f, user_id, event_ids)

----------------------------------------------------------------------------
(* bot.rs: the creation dialogue *)

\* handle_create without the check of the conversation type
handle_create_anywhere(X, f, user_id, chat_id, is_private) ==
    LET private_msg_result == send_message(X, f, user_id, TITLE_PROMPT) IN
    IF private_msg_result.res = "Ok"
    THEN [private_msg_result EXCEPT !.event_contexts =
             insert(@, user_id, EventContext(chat_id, EventDraft, AwaitingTitle))]
    ELSE IF private_msg_result.out = "403"
         THEN send_message(private_msg_result, f, chat_id, HELP_MESSAGE)
         ELSE private_msg_result

\* handle_create with the Draft inserted before the private prompt is sent
handle_create_eager(X, f, user_id, chat_id, is_private) ==
    IF is_private THEN send_message(X, f, chat_id, GROUP_ONLY_MESSAGE)
    ELSE LET I == [X EXCEPT !.event_contexts =
                      insert(@, user_id, EventContext(chat_id, EventDraft, AwaitingTitle))]
             private_msg_result == send_message(I, f, user_id, TITLE_PROMPT)
         IN IF private_msg_result.res = "Ok" THEN private_msg_result
            ELSE IF private_msg_result.out = "403"
                 THEN send_message(private_msg_result, f, chat_id, HELP_MESSAGE)
                 ELSE private_msg_result

handle_create(X, f, user_id, chat_id, is_private) ==
    IF is_private THEN send_message(X, f, chat_id, GROUP_ONLY_MESSAGE)
    ELSE LET private_msg_result == send_message(X, f, user_id, TITLE_PROMPT) IN
         IF private_msg_result.res = "Ok"
         THEN [private_msg_result EXCEPT !.event_contexts =
                  insert(@, user_id, EventContext(chat_id, EventDraft, AwaitingTitle))]
         ELSE IF private_msg_result.out = "403"
              THEN send_message(private_msg_result, f, chat_id, HELP_MESSAGE)
              ELSE private_msg_result

\* handle_time with the event created in the chat of the reply
handle_time_reply_chat(X, f, user_id, chat_id, text, context) ==
    LET parsed == parse_datetime_string(text) IN
    IF parsed.ok
    THEN LET draft == [context.draft EXCEPT !.datetime = text]
             R == [X EXCEPT !.event_contexts = remove(@, user_id)]
             C == create_event(R, f, user_id, chat_id, draft, parsed.value)
         IN IF C.res # "Ok" THEN C
            ELSE send_message(C, f, chat_id, CREATED_MESSAGE)
    ELSE send_message(X, f, chat_id, DATETIME_ERROR)

\* handle_time putting the Draft back when create_event fails
handle_time_put_back(X, f, user_id, chat_id, text, context) ==
    LET parsed == parse_datetime_string(text) IN
    IF parsed.ok
    THEN LET draft == [context.draft EXCEPT !.datetime = text]
             R == [X EXCEPT !.event_contexts = remove(@, user_id)]
             C == create_event(R, f, user_id, context.origin_chat_id, draft, parsed.value)
         IN IF C.res # "Ok" THEN [C EXCEPT !.event_contexts = X.event_contexts]
            ELSE send_message(C, f, chat_id, CREATED_MESSAGE)
    ELSE send_message(X, f, chat_id, DATETIME_ERROR)

\* the AwaitingTime arm of handle_event_creation
handle_time(X, f, user_id, chat_id, text, context) ==
    LET parsed == parse_datetime_string(text) IN
    IF parsed.ok
    THEN LET draft == [context.draft EXCEPT !.datetime = text]
             R == [X EXCEPT !.event_contexts = remove(@, user_id)]
             C == create_event(R, f, user_id, context.origin_chat_id, draft, parsed.value)
         IN IF C.res # "Ok" THEN C
            ELSE send_message(C, f, chat_id, CREATED_MESSAGE)
    ELSE send_message(X, f, chat_id, DATETIME_ERROR)

\* handle_event_creation with the description step moving on to AwaitingTime
handle_event_creation_skip(X, f, user_id, chat_id, text) ==
    IF ~contains_key(X.event_contexts, user_id) THEN Ok(X)
    ELSE LET context == get(X.event_contexts, user_id) IN
         CASE context.state = AwaitingTitle ->
                send_message(
                    [X EXCEPT !.event_contexts = insert(@, user_id,
                        [context EXCEPT !.draft.title = text,
                                        !.state = AwaitingDescription])],
                    f, chat_id, DESCRIPTION_PROMPT)
           [] context.state = AwaitingDescription ->
                send_message(
                    [X EXCEPT !.event_contexts = insert(@, user_id,
                        [context EXCEPT !.draft.description = text,
                                        !.state = AwaitingTime])],
                    f, chat_id, DATETIME_PROMPT)
           [] context.state = AwaitingLocation ->
                send_message(
                    [X EXCEPT !.event_contexts = insert(@, user_id,
                        [context EXCEPT !.draft.location = text,
                                        !.state = AwaitingTime])],
                    f, chat_id, DATETIME_PROMPT)
           [] context.state = AwaitingTime ->
                handle_time(X, f, user_id, chat_id, text, context)

\* handle_event_creation storing the text only after the prompt was sent
handle_event_creation_send_first(X, f, user_id, chat_id, text) ==
    IF ~contains_key(X.event_contexts, user_id) THEN Ok(X)
    ELSE LET context == get(X.event_contexts, user_id)
             Stored(S, next) ==
                IF S.res = "Ok"
                THEN [S EXCEPT !.event_contexts = insert(@, user_id, next)]
                ELSE S
         IN
         CASE context.state = AwaitingTitle ->
                Stored(send_message(X, f, chat_id, DESCRIPTION_PROMPT),
                       [context EXCEPT !.draft.title = text,
                                       !.state = AwaitingDescription])
           [] context.state = AwaitingDescription ->
                Stored(send_message(X, f, chat_id, LOCATION_PROMPT),
                       [context EXCEPT !.draft.description = text,
                                       !.state = AwaitingLocation])
           [] context.state = AwaitingLocation ->
                Stored(send_message(X, f, chat_id, DATETIME_PROMPT),
                       [context EXCEPT !.draft.location = text,
                                       !.state = AwaitingTime])
           [] context.state = AwaitingTime ->
                handle_time(X, f, user_id, chat_id, text, context)

handle_event_creation(X, f, user_id, chat_id, text) ==
    IF ~contains_key(X.event_contexts, user_id) THEN Ok(X)
    ELSE LET context == get(X.event_contexts, user_id) IN
         CASE context.state = AwaitingTitle ->
                send_message(
                    [X EXCEPT !.event_contexts = insert(@, user_id,
                        [context EXCEPT !.draft.title = text,
                                        !.state = AwaitingDescription])],
                    f, chat_id, DESCRIPTION_PROMPT)
           [] context.state = AwaitingDescription ->
                send_message(
                    [X EXCEPT !.event_contexts = insert(@, user_id,
                        [context EXCEPT !.draft.description = text,
                                        !.state = AwaitingLocation])],
                    f, chat_id, LOCATION_PROMPT)
           [] context.state = AwaitingLocation ->
                send_message(
                    [X EXCEPT !.event_contexts = insert(@, user_id,
                        [context EXCEPT !.draft.location = text,
                                        !.state = AwaitingTime])],
                    f, chat_id, DATETIME_PROMPT)
           [] context.state = AwaitingTime ->
                handle_time(X, f, user_id, chat_id, text, context)

\* handle_cancel confirming also when there was no Draft
handle_cancel_always(X, f, user_id, chat_id) ==
    send_message([X EXCEPT !.event_contexts = remove(@, user_id)],
                 f, chat_id, CANCELLED_MESSAGE)

handle_cancel(X, f, user_id, chat_id) ==
    IF contains_key(X.event_contexts, user_id)
    THEN send_message([X EXCEPT !.event_contexts = remove(@, user_id)],
                      f, chat_id, CANCELLED_MESSAGE)
    ELSE Ok(X)

handle_help(X, f, chat_id) == send_message(X, f, chat_id, HELP_TEXT)

\* handle_message routing free text of a user with a Draft from every conversation
handle_message_any_chat(X, f, message) ==
    LET user_id == message.from
        chat_id == message.chat_id
        is_private == message.is_private
        text == message.text
    IN
    IF text = NoText THEN Ok(X)
    ELSE CASE text = "/create" -> handle_create(X, f, user_id, chat_id, is_private)
           [] text = "/list" -> list_events(X, f, chat_id, user_id)
           [] text = "/cancel" -> handle_cancel(X, f, user_id, chat_id)
           [] text = "/myevents" -> list_my_events(X, f, user_id)
           [] text = "/help" -> handle_help(X, f, chat_id)
           [] OTHER ->
                IF contains_key(X.event_contexts, user_id)
                THEN handle_event_creation(X, f, user_id, chat_id, text)
                ELSE Ok(X)

\* handle_message taking every text of a user with a Draft, written in the
\* private conversation, as Draft input before it looks for a command
handle_message_draft_first(X, f, message) ==
    LET user_id == message.from
        chat_id == message.chat_id
        is_private == message.is_private
        text == message.text
    IN
    IF text = NoText THEN Ok(X)
    ELSE IF is_private /\ contains_key(X.event_contexts, user_id)
    THEN handle_event_creation(X, f, user_id, chat_id, text)
    ELSE CASE text = "/create" -> handle_create(X, f, user_id, chat_id, is_private)
           [] text = "/list" -> list_events(X, f, chat_id, user_id)
           [] text = "/cancel" -> handle_cancel(X, f, user_id, chat_id)
           [] text = "/myevents" -> list_my_events(X, f, user_id)
           [] text = "/help" -> handle_help(X, f, chat_id)
           [] OTHER -> Ok(X)

\* message: [from, chat_id, is_private, text], text = NoText for a message without text
handle_message(X, f, message) ==
    LET user_id == message.from
        chat_id == message.chat_id
        is_private == message.is_private
        text == message.text
    IN
    IF text = NoText THEN Ok(X)
    ELSE CASE text = "/create" -> handle_create(X, f, user_id, chat_id, is_private)
           [] text = "/list" -> list_events(X, f, chat_id, user_id)
           [] text = "/cancel" -> handle_cancel(X, f, user_id, chat_id)
           [] text = "/myevents" -> list_my_events(X, f, user_id)
           [] text = "/help" -> handle_help(X, f, chat_id)
           [] OTHER ->
                IF is_private /\ contains_key(X.event_contexts, user_id)
                THEN handle_event_creation(X, f, user_id, chat_id, text)
                ELSE Ok(X)

----------------------------------------------------------------------------
(* bot.rs: control activations *)

NoMessage == [kind |-> "none", chat_id |-> 0, is_private |-> FALSE]

\* data.starts_with("accepted_"), on the text split at its first '_'
starts_with(data, action) == Len(data) = 2 /\ data[1] = action

\* the accepted_ / declined_ arm with every Api error 400 of the edit passed over
rsvp_any_400(X, f, event_id, user_id, status, message) ==
    LET U == update_attendance(X, f, event_id, user_id, status) IN
    IF U.out # "ok" THEN Err(U, "Database")
    ELSE IF message.kind # "message" THEN Ok(U)
    ELSE LET F == fetch_event(U, f, event_id) IN
         IF F.out # "ok" THEN Err(F, "Database")
         ELSE LET E == api_call(F, f,
                           Message("edit", message.chat_id, EVENT_TEXT, F.event,
                                   create_keyboard(F.event[1], user_id,
                                                   ~message.is_private)))
              IN IF E.out \in {"ok", "400nm", "400"} THEN Ok(E) ELSE Err(E, "Telegram")

\* the accepted_ / declined_ arm rendering the event fetched before the toggle
rsvp_stale(X, f, event_id, user_id, status, message) ==
    LET U == update_attendance(X, f, event_id, user_id, status) IN
    IF U.out # "ok" THEN Err(U, "Database")
    ELSE IF message.kind # "message" THEN Ok(U)
    ELSE LET E == api_call(U, f,
                      Message("edit", message.chat_id, EVENT_TEXT, X.event,
                              create_keyboard(X.event[1], user_id,
                                              ~message.is_private)))
         IN IF E.out \in {"ok", "400nm"} THEN Ok(E) ELSE Err(E, "Telegram")

\* the accepted_ / declined_ arm, after the event was found
rsvp(X, f, event_id, user_id, status, message) ==
    LET U == update_attendance(X, f, event_id, user_id, status) IN
    IF U.out # "ok" THEN Err(U, "Database")
    ELSE IF message.kind # "message" THEN Ok(U)
    ELSE LET F == fetch_event(U, f, event_id) IN
         IF F.out # "ok" THEN Err(F, "Database")
         ELSE LET E == api_call(F, f,
                           Message("edit", message.chat_id, EVENT_TEXT, F.event,
                                   create_keyboard(F.event[1], user_id,
                                                   ~message.is_private)))
              IN IF E.out \in {"ok", "400nm"} THEN Ok(E) ELSE Err(E, "Telegram")

\* the deleted_ arm without the comparison of the creator
delete_by_anyone(X, f, event_id, user_id, message) ==
    IF message.kind # "message" THEN Ok(X)
    ELSE LET D == delete_event(X, f, event_id) IN
         IF D.res # "Ok" THEN D
         ELSE LET M == api_call(D, f,
                           Message("delete", message.chat_id, "", <<>>, {}))
              IN IF M.out \in {"ok", "400", "400nm"}
                 THEN send_message(M, f, message.chat_id, DELETED_MESSAGE)
                 ELSE Err(M, "Telegram")

\* the deleted_ arm deleting from storage whether or not there is a message
delete_by_unseen(X, f, event_id, user_id, message) ==
    IF X.event[1].creator # user_id THEN Ok(X)
    ELSE LET D == delete_event(X, f, event_id) IN
         IF D.res # "Ok" THEN D
         ELSE IF message.kind # "message" THEN Ok(D)
         ELSE LET M == api_call(D, f,
                           Message("delete", message.chat_id, "", <<>>, {}))
              IN IF M.out \in {"ok", "400", "400nm"}
                 THEN send_message(M, f, message.chat_id, DELETED_MESSAGE)
                 ELSE Err(M, "Telegram")

\* the deleted_ arm, after the event was found
delete_by(X, f, event_id, user_id, message) ==
    IF X.event[1].creator # user_id THEN Ok(X)
    ELSE IF message.kind # "message" THEN Ok(X)
    ELSE LET D == delete_event(X, f, event_id) IN
         IF D.res # "Ok" THEN D
         ELSE LET M == api_call(D, f,
                           Message("delete", message.chat_id, "", <<>>, {}))
              IN IF M.out \in {"ok", "400", "400nm"}
                 THEN send_message(M, f, message.chat_id, DELETED_MESSAGE)
                 ELSE Err(M, "Telegram")

\* callback_query: [from, data, message]; data is <<"">> when absent
handle_callback_query(X, f, callback_query) ==
    LET data == callback_query.data
        user_id == callback_query.from
        message == callback_query.message
    IN
    IF starts_with(data, "accepted") \/ starts_with(data, "declined")
    THEN LET status == data[1]
             event_id == ParseI64(data[2])
         IN IF ~event_id.ok THEN Err(X, "Parse")
            ELSE LET F == fetch_event(X, f, event_id.value) IN
                 IF F.out = "RowNotFound" THEN Ok(F)
                 ELSE IF F.out # "ok" THEN Err(F, "Database")
                 ELSE rsvp(F, f, event_id.value, user_id, status, message)
    ELSE IF starts_with(data, "deleted")
    THEN LET event_id == ParseI64(data[2])
         IN IF ~event_id.ok THEN Err(X, "Parse")
            ELSE LET F == fetch_event(X, f, event_id.value) IN
                 IF F.out = "RowNotFound" THEN Ok(F)
                 ELSE IF F.out # "ok" THEN Err(F, "Database")
                 ELSE delete_by(F, f, event_id.value, user_id, message)
    ELSE Ok(X)

----------------------------------------------------------------------------
(* The updates the platform delivers *)

Messages ==
    {[from |-> u, chat_id |-> c, is_private |-> (c = u), text |-> t] :
        u \in Users, c \in Chats, t \in Texts \cup {NoText}}

\* a message is written in a group or in the sender's own private conversation
IsMessage(m) == m \in Messages /\ (m.chat_id \in Groups \/ m.chat_id = m.from)

EventIds == 1..(MaxEvents + 1)

Datas ==
    {CallbackData(a, i) : a \in {"accepted", "declined", "deleted"}, i \in EventIds}
    \cup {<<"accepted", "x">>, <<"deleted", "x">>, <<"other", "1">>, <<"">>}

CallbackMessages ==
    {NoMessage, [kind |-> "inaccessible", chat_id |-> 0, is_private |-> FALSE]}
    \cup {[kind |-> "message", chat_id |-> c, is_private |-> (c \in Users)] : c \in Chats}

CallbackQueries ==
    {[from |-> u, data |-> d, message |-> m] :
        u \in Users, d \in Datas, m \in CallbackMessages}

\* a control is activated in a group or in the user's own private conversation
IsCallbackQuery(q) ==
    q \in CallbackQueries /\ (q.message.is_private => q.message.chat_id = q.from)

\* the errors the code tells apart at a platform call; every other error of the
\* call is handled as "err" is
Distinguished(call) ==
    IF call.call = "edit" THEN {"400nm", "err"}
    ELSE IF call.call = "delete" THEN {"400", "err"}
    ELSE IF call.text = TITLE_PROMPT THEN {"403", "err"}
    ELSE {"err"}

\* the fault plans that can take effect in a run that ends as N when nothing
\* fails: one platform call fails (and, when the code recovers from that, the
\* next call may fail too), or one storage statement fails
Faults(N) ==
    {NoFault}
    \cup {[tg |-> n, err |-> e, tg2 |-> FALSE, db |-> 0] :
            n \in 1..N.tgc, e \in TgErrors}
    \cup {[tg |-> n, err |-> e, tg2 |-> TRUE, db |-> 0] :
            n \in 1..N.tgc, e \in {"403", "400"}}
    \cup {[tg |-> 0, err |-> "ok", tg2 |-> FALSE, db |-> n] : n \in 1..N.dbc}

\* the plans of Faults(N) with an effect of their own
OwnFaults(N) ==
    {f \in Faults(N) :
        f.tg # 0 => /\ f.err \in Distinguished(N.sent[f.tg])
                    /\ f.tg2 => f.err \in {"403", "400"}}

Current == Start(event_contexts, events, attendees, seq)

\* the state after a handler run
Becomes(X) ==
    /\ event_contexts' = X.event_contexts
    /\ events' = X.events
    /\ attendees' = X.attendees
    /\ seq' = X.seq
    /\ sent' = X.sent
    /\ result' = X.res
    /\ running' = (X.res = "Ok")
    /\ update_id' = update_id + 1
    /\ UNCHANGED render_vars
    /\ UNCHANGED poll_vars

----------------------------------------------------------------------------
(* bot.rs: run *)

\* rows of events_bot.db left by earlier runs
StoredEvent(id, creator, chat_id, day) ==
    [id |-> id, creator |-> creator, title |-> "Picnic", description |-> "Picnic",
     location |-> "Picnic", event_date |-> <<2025, 8, day, 19, 0, 0>>,
     chat_id |-> chat_id]

Attendee(event_id, user_id, status) ==
    [event_id |-> event_id, user_id |-> user_id, status |-> status]

\* the stores Bot::new may open: CREATE TABLE IF NOT EXISTS keeps the rows
InitialStores ==
    {[events |-> {}, attendees |-> {}, seq |-> 0],
     [events |-> {StoredEvent(1, 7, 100, 15)},
      attendees |-> {Attendee(1, 8, "accepted")}, seq |-> 1]}

Init ==
    /\ event_contexts = {}
    /\ \E store \in InitialStores :
        /\ store.seq <= MaxEvents
        /\ events = store.events
        /\ attendees = store.attendees
        /\ seq = store.seq
    /\ sent = <<>>
    /\ result = "Ok"
    /\ running = TRUE
    /\ update_id = 0
    /\ Unrendered
    /\ Unpolled

\* UpdateContent::Message(message) => self.handle_message(message).await?
HandleMessage ==
    /\ running
    /\ update_id < MaxUpdates
    /\ \E message \in Messages :
        /\ IsMessage(message)
        /\ LET N == handle_message(Current, NoFault, message) IN
           /\ N.seq <= MaxEvents
           /\ \E f \in OwnFaults(N) :
                Becomes(IF f = NoFault THEN N ELSE handle_message(Current, f, message))

\* UpdateContent::CallbackQuery(query) => self.handle_callback_query(query).await?
HandleCallbackQuery ==
    /\ running
    /\ update_id < MaxUpdates
    /\ \E query \in CallbackQueries :
        /\ IsCallbackQuery(query)
        /\ LET N == handle_callback_query(Current, NoFault, query) IN
           \E f \in OwnFaults(N) :
               Becomes(IF f = NoFault THEN N
                       ELSE handle_callback_query(Current, f, query))

Next == HandleMessage \/ HandleCallbackQuery

Spec == Init /\ [][Next]_vars

----------------------------------------------------------------------------
(* bot.rs: run, started on a database that earlier runs filled: two events, *)
(* in one group or in two, stored in date order or against it               *)

ArchiveAttendance ==
    {{}, {Attendee(1, 8, "accepted"), Attendee(2, 7, "declined"),
          Attendee(2, 8, "accepted")}}

ArchiveStores ==
    {[events |-> {StoredEvent(1, 7, 100, 15), StoredEvent(2, c, g, d)},
      attendees |-> att, seq |-> 2] :
        c \in Users, g \in Groups, d \in {14, 16}, att \in ArchiveAttendance}

ArchiveInit ==
    /\ event_contexts = {}
    /\ \E store \in ArchiveStores :
        /\ events = store.events
        /\ attendees = store.attendees
        /\ seq = store.seq
    /\ sent = <<>>
    /\ result = "Ok"
    /\ running = TRUE
    /\ update_id = 0
    /\ Unrendered
    /\ Unpolled

ArchiveHandleMessage ==
    /\ running
    /\ update_id < MaxArchiveUpdates
    /\ \E message \in Messages :
        /\ IsMessage(message)
        /\ LET N == handle_message(Current, NoFault, message) IN
           \E f \in OwnFaults(N) :
               Becomes(IF f = NoFault THEN N ELSE handle_message(Current, f, message))

ArchiveHandleCallbackQuery ==
    /\ running
    /\ update_id < MaxArchiveUpdates
    /\ \E query \in CallbackQueries :
        /\ IsCallbackQuery(query)
        /\ LET N == handle_callback_query(Current, NoFault, query) IN
           \E f \in OwnFaults(N) :
               Becomes(IF f = NoFault THEN N
                       ELSE handle_callback_query(Current, f, query))

ArchiveNext == ArchiveHandleMessage \/ ArchiveHandleCallbackQuery

ArchiveSpec == ArchiveInit /\ [][ArchiveNext]_vars

----------------------------------------------------------------------------
(* main.rs: the binary's own bot.  It shares Bot::send_message,            *)
(* handle_create, handle_cancel, handle_help, fetch_event and              *)
(* update_attendance with bot.rs word for word; the rest follows.          *)

main_create_keyboard(event) ==
    {CallbackData("accepted", event.id), CallbackData("declined", event.id)}

main_list_event(X, f, chat_id, event) ==
    LET Y == api_call(X, f, Message("send", chat_id, EVENT_TEXT, <<event>>,
                                    main_create_keyboard(event)))
    IN IF Y.out = "ok" THEN Ok(Y) ELSE Err(Y, "Telegram")

\* the draft's datetime text is stored as it was typed
main_create_event(X, f, creator, chat_id, draft) ==
    LET D == db_exec(X, f)
        event_id == D.seq + 1
        I == [D EXCEPT !.seq = event_id,
                       !.events = @ \cup {[id |-> event_id, creator |-> creator,
                                           title |-> draft.title,
                                           description |-> draft.description,
                                           location |-> draft.location,
                                           event_date |-> draft.datetime,
                                           chat_id |-> chat_id]}]
        F == fetch_event(I, f, event_id)
    IN
    IF D.out # "ok" THEN Err(D, "Database")
    ELSE IF F.out # "ok" THEN Err(F, "Database")
    ELSE main_list_event(F, f, chat_id, F.event[1])

main_handle_event_creation(X, f, user_id, chat_id, text) ==
    IF ~contains_key(X.event_contexts, user_id) THEN Ok(X)
    ELSE LET context == get(X.event_contexts, user_id) IN
         CASE context.state = AwaitingTitle ->
                send_message(
                    [X EXCEPT !.event_contexts = insert(@, user_id,
                        [context EXCEPT !.draft.title = text,
                                        !.state = AwaitingDescription])],
                    f, chat_id, DESCRIPTION_PROMPT)
           [] context.state = AwaitingDescription ->
                send_message(
                    [X EXCEPT !.event_contexts = insert(@, user_id,
                        [context EXCEPT !.draft.description = text,
                                        !.state = AwaitingLocation])],
                    f, chat_id, LOCATION_PROMPT)
           [] context.state = AwaitingLocation ->
                send_message(
                    [X EXCEPT !.event_contexts = insert(@, user_id,
                        [context EXCEPT !.draft.location = text,
                                        !.state = AwaitingTime])],
                    f, chat_id, MAIN_DATETIME_PROMPT)
           [] context.state = AwaitingTime ->
                LET draft == [context.draft EXCEPT !.datetime = text]
                    R == [X EXCEPT !.event_contexts = remove(@, user_id)]
                    C == main_create_event(R, f, user_id, context.origin_chat_id, draft)
                IN IF C.res # "Ok" THEN C
                   ELSE send_message(C, f, chat_id, CREATED_MESSAGE)

\* the byte order of the texts a stored event_date can be
TextRank(text) ==
    CASE text = "/myevents" -> 1
      [] text = "2025-02-30 19:00" -> 2
      [] text = "2025-08-14 19:00" -> 3
      [] text = "2025-08-15 19:00" -> 4
      [] text = "Picnic" -> 5

RECURSIVE main_OrderByEventDate(_)
main_OrderByEventDate(rows) ==
    IF rows = {} THEN <<>>
    ELSE LET m == CHOOSE r \in rows : \A q \in rows :
                      \/ q = r
                      \/ TextRank(r.event_date) < TextRank(q.event_date)
                      \/ (r.event_date = q.event_date /\ r.id < q.id)
         IN <<m.id>> \o main_OrderByEventDate(rows \ {m})

main_fetch_events(X, f, chat_id) ==
    LET D == db_exec(X, f)
        event_ids == main_OrderByEventDate({e \in D.events : e.chat_id = chat_id})
    IN IF D.out # "ok" THEN D ELSE FetchAll(D, f, event_ids, <<>>)

RECURSIVE main_ListAll(_, _, _, _)
main_ListAll(X, f, chat_id, evs) ==
    IF evs = <<>> THEN Ok(X)
    ELSE LET Y == main_list_event(X, f, chat_id, Head(evs)) IN
         IF Y.res # "Ok" THEN Y ELSE main_ListAll(Y, f, chat_id, Tail(evs))

main_list_events(X, f, chat_id) ==
    LET F == main_fetch_events(X, f, chat_id) IN
    IF F.out # "ok" THEN Err(F, "Database")
    ELSE IF F.event = <<>> THEN send_message(F, f, chat_id, NO_EVENTS_MESSAGE)
    ELSE main_ListAll(F, f, chat_id, F.event)

main_handle_message(X, f, message) ==
    LET user_id == message.from
        chat_id == message.chat_id
        is_private == message.is_private
        text == message.text
    IN
    IF text = NoText THEN Ok(X)
    ELSE CASE text = "/create" -> handle_create(X, f, user_id, chat_id, is_private)
           [] text = "/list" -> main_list_events(X, f, chat_id)
           [] text = "/cancel" -> handle_cancel(X, f, user_id, chat_id)
           [] text = "/help" -> handle_help(X, f, chat_id)
           [] OTHER ->
                IF is_private /\ contains_key(X.event_contexts, user_id)
                THEN main_handle_event_creation(X, f, user_id, chat_id, text)
                ELSE Ok(X)

main_handle_callback_query(X, f, callback_query) ==
    LET data == callback_query.data
        user_id == callback_query.from
        message == callback_query.message
    IN
    IF starts_with(data, "accepted") \/ starts_with(data, "declined")
    THEN LET status == data[1]
             event_id == ParseI64(data[2])
         IN IF ~event_id.ok THEN Err(X, "Parse")
            ELSE LET U == update_attendance(X, f, event_id.value, user_id, status) IN
                 IF U.out # "ok" THEN Err(U, "Database")
                 ELSE IF message.kind # "message" THEN Ok(U)
                 ELSE LET F == fetch_event(U, f, event_id.value) IN
                      IF F.out # "ok" THEN Err(F, "Database")
                      ELSE LET E == api_call(F, f,
                                   Message("edit", message.chat_id, EVENT_TEXT, F.event,
                                           main_create_keyboard(F.event[1])))
                           IN IF E.out \in {"ok", "400nm"} THEN Ok(E)
                              ELSE Err(E, "Telegram")
    ELSE Ok(X)

\* rows left in events_bot.db by earlier runs of the binary
MainInitialStores ==
    {[events |-> {}, attendees |-> {}, seq |-> 0],
     [events |-> {[StoredEvent(1, 7, 100, 15) EXCEPT !.event_date = "2025-08-15 19:00"]},
      attendees |-> {Attendee(1, 8, "accepted")}, seq |-> 1]}

MainInit ==
    /\ event_contexts = {}
    /\ \E store \in MainInitialStores :
        /\ store.seq <= MaxEvents
        /\ events = store.events
        /\ attendees = store.attendees
        /\ seq = store.seq
    /\ sent = <<>>
    /\ result = "Ok"
    /\ running = TRUE
    /\ update_id = 0
    /\ Unrendered
    /\ Unpolled

MainHandleMessage ==
    /\ running
    /\ update_id < MaxUpdates
    /\ \E message \in Messages :
        /\ IsMessage(message)
        /\ LET N == main_handle_message(Current, NoFault, message) IN
           /\ N.seq <= MaxEvents
           /\ \E f \in OwnFaults(N) :
                Becomes(IF f = NoFault THEN N
                        ELSE main_handle_message(Current, f, message))

MainHandleCallbackQuery ==
    /\ running
    /\ update_id < MaxUpdates
    /\ \E query \in CallbackQueries :
        /\ IsCallbackQuery(query)
        /\ LET N == main_handle_callback_query(Current, NoFault, query) IN
           \E f \in OwnFaults(N) :
               Becomes(IF f = NoFault THEN N
                       ELSE main_handle_callback_query(Current, f, query))

MainNext == MainHandleMessage \/ MainHandleCallbackQuery

MainSpec == MainInit /\ [][MainNext]_vars

----------------------------------------------------------------------------
(* event.rs: rendering.  A String is the sequence of its characters; the   *)
(* String format_message returns is kept as the pieces format! and         *)
(* push_str put together, in order, each with where it comes from: the     *)
(* template, a field passed through escape_markdown, or a user name.       *)

\* the eighteen characters of special_chars; "<grave>" is the grave accent
special_chars ==
    {"_", "*", "[", "]", "(", ")", "~", "<grave>", ">", "#", "+", "-", "=", "|", "{",
     "}", ".", "!"}

\* escape_markdown that leaves the full stop as it is
RECURSIVE escape_markdown_less(_)
escape_markdown_less(text) ==
    IF text = <<>> THEN <<>>
    ELSE (IF Head(text) \in special_chars \ {"."} THEN <<"\\", Head(text)>>
          ELSE <<Head(text)>>)
         \o escape_markdown_less(Tail(text))

RECURSIVE escape_markdown(_)
escape_markdown(text) ==
    IF text = <<>> THEN <<>>
    ELSE (IF Head(text) \in special_chars THEN <<"\\", Head(text)>> ELSE <<Head(text)>>)
         \o escape_markdown(Tail(text))

Piece(from, text) == [from |-> from, text |-> text]

\* for (_, user_name) in list { push_str(format!("* {}\n", user_name)) }
RECURSIVE Bullets(_)
Bullets(list) ==
    IF list = <<>> THEN <<>>
    ELSE <<Piece("template", <<"<bullet>", " ">>), Piece("name", Head(list)[2]),
           Piece("template", <<"\n">>)>>
         \o Bullets(Tail(list))

format_message(event) ==
    <<Piece("template", <<"*", "_", "_">>),
      Piece("field", escape_markdown(event.title)),
      Piece("template", <<"_", "_", "*", "\n">>),
      Piece("field", escape_markdown(event.description)),
      Piece("template", <<"\n", "\n", "<alarm clock>", " ">>),
      Piece("field", escape_markdown(event.event_date)),
      Piece("template", <<"\n", "<pin>", " ">>),
      Piece("field", escape_markdown(event.location)),
      Piece("template", <<"\n">>)>>
    \o (IF event.accepted # <<>>
        THEN <<Piece("template", <<"\n", "<check mark>", " ", "Accepted", "\n">>)>>
             \o Bullets(event.accepted)
        ELSE <<>>)
    \o (IF event.declined # <<>>
        THEN <<Piece("template", <<"\n", "<cross mark>", " ", "Declined", "\n">>)>>
             \o Bullets(event.declined)
        ELSE <<>>)

\* Option<String>
None == [some |-> FALSE, value |-> <<>>]

Some(value) == [some |-> TRUE, value |-> value]

\* the name of a chat member: "first last", or the first name alone
get_user_name(user) ==
    IF user.last_name.some
    THEN user.first_name \o <<" ">> \o user.last_name.value
    ELSE user.first_name

\* format!("User {}", user_id), the name used when get_chat_member fails
UserPlaceholder(user_id) == <<"U", "s", "e", "r", " ", ToString(user_id)>>

\* the characters of the texts rendered: an ordinary one, two of special_chars
\* and the escape character
Alphabet == {"a", "_", ".", "\\"}

StringsUpTo(n) == UNION {[1..k -> Alphabet] : k \in 0..n}

\* the users the platform reports for get_chat_member
ChatMembers ==
    {[first_name |-> first, last_name |-> last] :
        first \in {<<"a">>, <<"a", "_">>, <<"a", ".">>},
        last \in {None, Some(<<"b">>)}}

UserNames == {get_user_name(user) : user \in ChatMembers} \cup {UserPlaceholder(8)}

\* events as fetch_event loads them: the stored fields and the attendees' names
RenderedEvents ==
    {[title |-> title, description |-> <<"a", ".">>,
      event_date |-> <<"2025", "-", "08", "-", "15", " ", "19", ":", "00", ":", "00">>,
      location |-> <<"a">>, accepted |-> accepted, declined |-> <<>>] :
        title \in StringsUpTo(2),
        accepted \in {<<>>} \cup {<<<<8, name>>>> : name \in UserNames}}

Subjects ==
    {[kind |-> "text", text |-> text, event |-> NoEvent] : text \in StringsUpTo(MaxLen)}
    \cup {[kind |-> "event", text |-> <<>>, event |-> event] : event \in RenderedEvents}

RenderInit ==
    /\ event_contexts = {}
    /\ events = {} /\ attendees = {} /\ seq = 0
    /\ sent = <<>>
    /\ result = "Ok"
    /\ running = TRUE
    /\ update_id = 0
    /\ subject \in Subjects
    /\ rendered = <<>>
    /\ Unpolled

EscapeMarkdown ==
    /\ subject.kind = "text"
    /\ rendered = <<>>
    /\ rendered' = <<Piece("field", escape_markdown(subject.text))>>
    /\ UNCHANGED <<event_contexts, events, attendees, seq, sent, result, running,
                   update_id, subject>>
    /\ UNCHANGED poll_vars

FormatMessage ==
    /\ subject.kind = "event"
    /\ rendered = <<>>
    /\ rendered' = format_message(subject.event)
    /\ UNCHANGED <<event_contexts, events, attendees, seq, sent, result, running,
                   update_id, subject>>
    /\ UNCHANGED poll_vars

RenderNext == EscapeMarkdown \/ FormatMessage

RenderSpec == RenderInit /\ [][RenderNext]_vars

----------------------------------------------------------------------------
(* Properties.  A handler is judged in every reachable state, on every     *)
(* update of the kind the property is about and under every fault plan.    *)

\* the run that follows the run X
Then(X) == Start(X.event_contexts, X.events, X.attendees, X.seq)

ExistingIds == {e.id : e \in events}

Record(att, event_id, user_id) ==
    {a \in att : a.event_id = event_id /\ a.user_id = user_id}

Rsvp(user_id, status, event_id, message) ==
    [from |-> user_id, data |-> CallbackData(status, event_id), message |-> message]

OwnCallbackMessages(user_id) ==
    {m \in CallbackMessages : m.is_private => m.chat_id = user_id}

\* the attendance table after the three-way toggle of (event_id, user_id) with status
Toggled(att, event_id, user_id, status) ==
    LET old == Record(att, event_id, user_id)
        row == [event_id |-> event_id, user_id |-> user_id, status |-> status]
    IN IF old = {} THEN att \cup {row}
       ELSE IF row \in old THEN att \ old
       ELSE (att \ old) \cup {row}

\* C1: an RSVP with status s on an existing event creates the record with s
\* when the user has none, changes the stored status to s when it differs from
\* s, and deletes the record when the stored status equals s; this for both
\* statuses and all three prior states, whatever the platform calls do, and a
\* failed storage statement leaves the table as it was or toggled.
C1_ThreeWayToggle ==
    running =>
    \A u \in Users, s \in Statuses, e \in ExistingIds :
      \A m \in OwnCallbackMessages(u) :
        LET q == Rsvp(u, s, e, m)
            N == handle_callback_query(Current, NoFault, q)
            row == [event_id |-> e, user_id |-> u, status |-> s]
        IN /\ \A f \in Faults(N) :
                LET R == handle_callback_query(Current, f, q) IN
                /\ R.attendees \in {attendees, Toggled(attendees, e, u, s)}
                /\ f.db = 0 => R.attendees = Toggled(attendees, e, u, s)
           /\ Record(attendees, e, u) = {} => Record(N.attendees, e, u) = {row}
           /\ row \in attendees => Record(N.attendees, e, u) = {}
           /\ (Record(attendees, e, u) # {} /\ row \notin attendees) =>
                Record(N.attendees, e, u) = {row}
           /\ \A a \in attendees :
                (a.event_id # e \/ a.user_id # u) => a \in N.attendees

\* an RSVP has just removed the only attendance record of event 1: the edited
\* message shows nobody
C1_Witness ==
    /\ \E e \in events : e.id = 1
    /\ attendees = {}
    /\ result = "Ok"
    /\ Len(sent) = 1
    /\ sent[1].call = "edit"
    /\ sent[1].event[1].accepted = <<>>
    /\ sent[1].event[1].declined = <<>>

\* the attendance table after user_id activates first and then second on event_id
RsvpTwice(user_id, event_id, first, second) ==
    LET A == handle_callback_query(Current, NoFault,
                                   Rsvp(user_id, first, event_id, NoMessage))
    IN handle_callback_query(Then(A), NoFault,
                             Rsvp(user_id, second, event_id, NoMessage)).attendees

\* C2: for every pair of an existing event and a user, accept followed by
\* accept is a net no-op on the table, which for a pair without a record (the
\* case the claim speaks of) means no record; it also leaves no record when
\* the pair had declined.  Accept followed by decline leaves exactly one
\* record of the pair, with status declined, from every prior state.
C2_AcceptTwice ==
    running =>
    \A u \in Users, e \in ExistingIds :
        LET twice == RsvpTwice(u, e, "accepted", "accepted")
            other == RsvpTwice(u, e, "accepted", "declined")
        IN /\ Record(attendees, e, u) = {} =>
                (Record(twice, e, u) = {} /\ twice = attendees)
           /\ Attendee(e, u, "accepted") \in attendees => twice = attendees
           /\ Attendee(e, u, "declined") \in attendees => Record(twice, e, u) = {}
           /\ Record(other, e, u) = {Attendee(e, u, "declined")}
           /\ other \ Record(other, e, u) = attendees \ Record(attendees, e, u)

\* user 7 has activated a control of event 1 twice and has no record; the
\* edited message shows the stored acceptance of user 8 only
C2_Witness ==
    /\ update_id = 2
    /\ result = "Ok"
    /\ attendees = {Attendee(1, 8, "accepted")}
    /\ Len(sent) = 1
    /\ sent[1].call = "edit"
    /\ sent[1].chat_id = 7
    /\ sent[1].event[1].accepted = <<8>>

\* C3: in every reachable state there is at most one attendance record per
\* (event_id, user_id) pair and every record's status is accepted or declined.
C3_AttendanceKey ==
    /\ \A a \in attendees, b \in attendees :
        (a.event_id = b.event_id /\ a.user_id = b.user_id) => a = b
    /\ \A a \in attendees : a.status \in Statuses

\* both users have a record of event 1 after an RSVP was applied
C3_Witness ==
    /\ Cardinality(Record(attendees, 1, 7)) = 1
    /\ Cardinality(Record(attendees, 1, 8)) = 1
    /\ Len(sent) = 1
    /\ sent[1].call = "edit"
    /\ update_id >= 2

Entries(map, k) == {e \in map : e.key = k}

TextMessage(user_id, chat_id, text) ==
    [from |-> user_id, chat_id |-> chat_id, is_private |-> (chat_id = user_id),
     text |-> text]

Sent(chat_id, text) == Message("send", chat_id, text, <<>>, {})

\* C4: every user has at most one Draft, and a /create in a group whose title
\* prompt is delivered leaves the user with exactly the Draft in AwaitingTitle,
\* with all fields empty and the origin set to that group, whatever Draft the
\* user had before; the other users' Drafts stay as they were.
C4_OneDraft ==
    /\ \A a \in event_contexts, b \in event_contexts : a.key = b.key => a = b
    /\ running =>
       \A u \in Users, g \in Groups :
        LET m == TextMessage(u, g, "/create")
            N == handle_message(Current, NoFault, m)
        IN \A f \in Faults(N) :
            LET R == handle_message(Current, f, m) IN
            f.tg # 1 =>
                /\ R.res = "Ok"
                /\ R.sent = <<Sent(u, TITLE_PROMPT)>>
                /\ Entries(R.event_contexts, u) =
                     {[key |-> u, value |-> EventContext(g, EventDraft, AwaitingTitle)]}
                /\ R.event_contexts \ Entries(R.event_contexts, u) =
                     event_contexts \ Entries(event_contexts, u)

\* user 7 has just been prompted for a title after /create in group 200, and
\* the Draft is the fresh one although two updates were handled
C4_Witness ==
    /\ update_id = 2
    /\ sent = <<Sent(7, TITLE_PROMPT)>>
    /\ event_contexts =
         {[key |-> 7, value |-> EventContext(200, EventDraft, AwaitingTitle)]}

\* the context after the text was taken as the answer to the field being collected
Advanced(context, text) ==
    CASE context.state = AwaitingTitle ->
            [context EXCEPT !.draft.title = text, !.state = AwaitingDescription]
      [] context.state = AwaitingDescription ->
            [context EXCEPT !.draft.description = text, !.state = AwaitingLocation]
      [] context.state = AwaitingLocation ->
            [context EXCEPT !.draft.location = text, !.state = AwaitingTime]
      [] OTHER -> context

\* a free text sent privately by a user whose Draft collects one of the three
\* text fields is stored verbatim in that field and moves the state one step,
\* whether or not the next prompt can be sent
C5_Verbatim ==
    running =>
    \A u \in Users, t \in FreeTexts :
        (contains_key(event_contexts, u) /\ get(event_contexts, u).state # AwaitingTime) =>
            LET m == TextMessage(u, u, t)
                N == handle_message(Current, NoFault, m)
            IN \A f \in Faults(N) :
                LET R == handle_message(Current, f, m) IN
                /\ R.event_contexts =
                     insert(event_contexts, u, Advanced(get(event_contexts, u), t))
                /\ R.events = events /\ R.attendees = attendees

\* what one update may do to the Draft of one user: nothing, remove it, start
\* a fresh one, or move it one step forward with one field filled in
C5_Step(u) ==
    LET before == Entries(event_contexts, u)
        after == Entries(event_contexts', u)
    IN \/ after = before
       \/ after = {}
       \/ \E g \in Groups :
            after = {[key |-> u, value |-> EventContext(g, EventDraft, AwaitingTitle)]}
       \/ \E a \in before, t \in FreeTexts :
            /\ a.value.state # AwaitingTime
            /\ after = {[key |-> u, value |-> Advanced(a.value, t)]}

\* C5: a Draft's state only moves forward one step at a time, on a free text
\* that is stored verbatim in the field being collected; no step is skipped,
\* no state is revisited, and the only other changes of a Draft are its
\* removal and its replacement by the Draft of a new /create.
C5_ForwardOnly == []C5_Verbatim /\ [][\A u \in Users : C5_Step(u)]_vars

\* user 7 has answered title, description and location and is asked for the time
C5_Witness ==
    /\ update_id = 4
    /\ sent = <<Sent(7, DATETIME_PROMPT)>>
    /\ event_contexts =
         {[key |-> 7,
           value |-> EventContext(100,
                        [title |-> "Picnic", description |-> "2025-08-15 19:00",
                         location |-> "Picnic", datetime |-> ""],
                        AwaitingTime)]}

InAwaitingTime(u) ==
    contains_key(event_contexts, u) /\ get(event_contexts, u).state = AwaitingTime

Unparsable == {t \in FreeTexts : ~parse_datetime_string(t).ok}

Parsable == {t \in FreeTexts : parse_datetime_string(t).ok}

\* C6: a reply that does not parse as a date-time, from a user whose Draft is
\* in AwaitingTime, leaves the Draft as it is (state, fields and origin),
\* creates no event and is answered with the prompt that repeats the format.
\* Stated of the bot of main.rs.
C6_ParseFailure ==
    running =>
    \A u \in Users, t \in Unparsable :
        InAwaitingTime(u) =>
            LET R == main_handle_message(Current, NoFault, TextMessage(u, u, t))
            IN /\ R.event_contexts = event_contexts
               /\ R.events = events
               /\ R.sent = <<Sent(u, DATETIME_ERROR)>>

\* C6 (bot.rs): the same statement of the library bot, under every fault plan
C6_ParseFailure_Library ==
    running =>
    \A u \in Users, t \in Unparsable :
        InAwaitingTime(u) =>
            LET m == TextMessage(u, u, t)
                N == handle_message(Current, NoFault, m)
            IN \A f \in Faults(N) :
                LET R == handle_message(Current, f, m) IN
                /\ R.event_contexts = event_contexts
                /\ R.events = events /\ R.attendees = attendees /\ R.seq = seq
                /\ f.tg = 0 => (R.res = "Ok" /\ R.sent = <<Sent(u, DATETIME_ERROR)>>)
                /\ f.tg # 0 => (R.res = "Telegram" /\ R.sent = <<>>)

\* the row create_event inserts for the Draft of context and the reply text
Committed(u, context, text) ==
    [id |-> seq + 1, creator |-> u, title |-> context.draft.title,
     description |-> context.draft.description, location |-> context.draft.location,
     event_date |-> DB_DATETIME_FORMAT(parse_datetime_string(text).value),
     chat_id |-> context.origin_chat_id]

Posted(chat_id, row, controls) ==
    Message("send", chat_id, EVENT_TEXT, <<LoadEvent(row, {})>>,
            {CallbackData(a, row.id) : a \in controls})

\* C7: a reply that parses as a date-time, from a user whose Draft is in
\* AwaitingTime, removes the Draft and, unless the INSERT fails, adds exactly
\* one event: its creator is the user, its chat_id is the Draft's
\* origin_chat_id (a group, not the private chat of the reply), its title,
\* description and location are the collected texts.  When nothing fails the
\* event is posted and the confirmation is sent last, to the private chat;
\* the confirmation is never sent after a failure.
C7_Commit ==
    running =>
    \A u \in Users, t \in Parsable :
        InAwaitingTime(u) =>
            LET m == TextMessage(u, u, t)
                context == get(event_contexts, u)
                row == Committed(u, context, t)
                N == handle_message(Current, NoFault, m)
            IN /\ row.chat_id \in Groups
               /\ \A e \in events : e.id # row.id
               /\ N.res = "Ok"
               /\ N.sent = <<Posted(row.chat_id, row, {"accepted", "declined"}),
                             Posted(u, row, {"accepted", "declined", "deleted"}),
                             Sent(u, CREATED_MESSAGE)>>
               /\ \A f \in Faults(N) :
                    LET R == handle_message(Current, f, m) IN
                    /\ R.event_contexts = remove(event_contexts, u)
                    /\ R.attendees = attendees
                    /\ R.events = IF f.db = 1 THEN events ELSE events \cup {row}
                    /\ f # NoFault =>
                         /\ R.res # "Ok"
                         /\ \A i \in 1..Len(R.sent) : R.sent[i].text # CREATED_MESSAGE

\* user 7 has completed the dialogue begun in group 200: the event is stored
\* for group 200, the Draft is gone and the confirmation was sent
C7_Witness ==
    /\ update_id = 5
    /\ result = "Ok"
    /\ ~contains_key(event_contexts, 7)
    /\ Len(sent) = 3
    /\ sent[3] = Sent(7, CREATED_MESSAGE)
    /\ \E e \in events :
        /\ e.creator = 7 /\ e.chat_id = 200 /\ e.id = seq
        /\ e.title = "Picnic" /\ e.description = "2025-08-15 19:00"
        /\ e.location = "Picnic" /\ e.event_date = <<2025, 8, 15, 19, 0, 0>>

\* /create in a private conversation is answered with the guidance message
\* and changes no Draft
C8_PrivateCreate ==
    running =>
    \A u \in Users :
        LET m == TextMessage(u, u, "/create")
            N == handle_message(Current, NoFault, m)
        IN \A f \in Faults(N) :
            LET R == handle_message(Current, f, m) IN
            /\ R.event_contexts = event_contexts
            /\ f.tg = 0 => (R.res = "Ok" /\ R.sent = <<Sent(u, GROUP_ONLY_MESSAGE)>>)

\* a user gets a Draft only in an update that delivered the title prompt to
\* that user, which only /create in a group does, and the Draft names a group
C8_Appears(u) ==
    (Entries(event_contexts, u) = {} /\ Entries(event_contexts', u) # {}) =>
        /\ sent' = <<Sent(u, TITLE_PROMPT)>>
        /\ \E g \in Groups :
            Entries(event_contexts', u) =
                {[key |-> u, value |-> EventContext(g, EventDraft, AwaitingTitle)]}

\* C8: a Draft is created only by /create issued in a non-private
\* conversation; /create in a private conversation is answered with the
\* guidance message and creates no Draft.
C8_GroupOnly == []C8_PrivateCreate /\ [][\A u \in Users : C8_Appears(u)]_vars

\* user 7 sent /create privately: the guidance was sent and nobody has a Draft
C8_Witness ==
    /\ update_id = 1
    /\ result = "Ok"
    /\ sent = <<Sent(7, GROUP_ONLY_MESSAGE)>>
    /\ event_contexts = {}

\* C9: on /create in a group, a private prompt refused with permission-denied
\* is followed by the instructions sent to the group and no Draft is created;
\* a prompt that fails otherwise returns that error and no Draft is created;
\* the Draft table changes only after the prompt was delivered.
C9_PromptFirst ==
    running =>
    \A u \in Users, g \in Groups :
        LET m == TextMessage(u, g, "/create")
            N == handle_message(Current, NoFault, m)
        IN \A f \in Faults(N) :
            LET R == handle_message(Current, f, m) IN
            /\ (f.tg = 1 /\ f.err = "403") =>
                /\ R.event_contexts = event_contexts
                /\ ~f.tg2 => (R.res = "Ok" /\ R.sent = <<Sent(g, HELP_MESSAGE)>>)
                /\ f.tg2 => (R.res = "Telegram" /\ R.sent = <<>>)
            /\ (f.tg = 1 /\ f.err # "403") =>
                /\ R.event_contexts = event_contexts
                /\ R.res = "Telegram"
                /\ R.sent = <<>>
            /\ f.tg # 1 =>
                /\ R.sent = <<Sent(u, TITLE_PROMPT)>>
                /\ contains_key(R.event_contexts, u)

\* the prompt to the user was refused: the instructions went to group 100 and
\* no Draft exists
C9_Witness ==
    /\ update_id = 1
    /\ result = "Ok"
    /\ sent = <<Sent(100, HELP_MESSAGE)>>
    /\ event_contexts = {}

\* C10: /cancel from a user with a Draft, in whichever of the four states,
\* removes the Draft and sends the confirmation; /cancel from a user without
\* a Draft sends nothing and changes neither the Draft table nor storage.
C10_Cancel ==
    running =>
    \A u \in Users, c \in Chats :
        (c \in Groups \/ c = u) =>
            LET m == TextMessage(u, c, "/cancel")
                N == handle_message(Current, NoFault, m)
            IN \A f \in Faults(N) :
                LET R == handle_message(Current, f, m) IN
                /\ R.events = events /\ R.attendees = attendees /\ R.seq = seq
                /\ R.event_contexts = event_contexts \ Entries(event_contexts, u)
                /\ contains_key(event_contexts, u) =>
                    /\ f.tg = 0 => (R.res = "Ok" /\ R.sent = <<Sent(c, CANCELLED_MESSAGE)>>)
                    /\ f.tg # 0 => (R.res = "Telegram" /\ R.sent = <<>>)
                /\ ~contains_key(event_contexts, u) =>
                    (R.res = "Ok" /\ R.sent = <<>> /\ R.tgc = 0)

\* user 7 cancelled after four updates of the dialogue: the confirmation was
\* sent and no Draft is left
C10_Witness ==
    /\ update_id = 5
    /\ result = "Ok"
    /\ sent = <<Sent(7, CANCELLED_MESSAGE)>>
    /\ event_contexts = {}
    /\ events = {}

Activation(user_id, action, event_id, message) ==
    [from |-> user_id, data |-> CallbackData(action, event_id), message |-> message]

GroupMessage(chat_id) == [kind |-> "message", chat_id |-> chat_id, is_private |-> FALSE]

PrivateMessage(user_id) == [kind |-> "message", chat_id |-> user_id, is_private |-> TRUE]

\* a deleted_ activation by a user who is not the creator: nothing is sent,
\* nothing is stored or removed, and the only error possible is a failed SELECT
C11_Ignored ==
    \A u \in Users, e \in events :
        e.creator # u =>
            \A m \in OwnCallbackMessages(u) :
                LET q == Activation(u, "deleted", e.id, m)
                    N == handle_callback_query(Current, NoFault, q)
                IN \A f \in Faults(N) :
                    LET R == handle_callback_query(Current, f, q) IN
                    /\ R.events = events /\ R.attendees = attendees /\ R.seq = seq
                    /\ R.event_contexts = event_contexts
                    /\ R.sent = <<>> /\ R.tgc = 0
                    /\ f.db = 0 => R.res = "Ok"
                    /\ f.db # 0 => R.res = "Database"

\* whatever control is activated, an event that disappears was named by a
\* deleted_ activation of its creator
C11_OnlyCreator ==
    \A q \in CallbackQueries :
        IsCallbackQuery(q) =>
            LET N == handle_callback_query(Current, NoFault, q) IN
            \A f \in OwnFaults(N) :
                LET R == IF f = NoFault THEN N ELSE handle_callback_query(Current, f, q) IN
                \A e \in events :
                    e \notin R.events =>
                        (q.from = e.creator /\ q.data = CallbackData("deleted", e.id))

\* C11: an event is deleted only by its creator: a deleted_<id> activation by
\* another user is ignored silently (no error, no message) and the event and
\* all its attendance records stay in storage unchanged.
C11_DeleteByCreatorOnly ==
    running => (C11_Ignored /\ C11_OnlyCreator)

\* user 8 has activated deleted_1 on the event of user 7: the event and its
\* attendance record are still stored and nothing was sent
C11_Witness ==
    /\ update_id = 1
    /\ result = "Ok"
    /\ sent = <<>>
    /\ events = {StoredEvent(1, 7, 100, 15)}
    /\ attendees = {Attendee(1, 8, "accepted")}
    /\ LET R == handle_callback_query(Current, NoFault,
                    Activation(8, "deleted", 1, GroupMessage(100)))
       IN R.dbc = 2 /\ R.event[1].creator = 7 /\ R.res = result /\ R.sent = sent
          /\ R.events = events /\ R.attendees = attendees

\* the conversations in which user_id can activate a control of a message
Conversations(user_id) ==
    {GroupMessage(g) : g \in Groups} \cup {PrivateMessage(user_id)}

\* C12: deleting an event (the deleted_ activation of its creator) removes
\* every attendance record of the event and the event row, the attendance
\* records first: the row is never gone while a record of it is left, and a
\* failure of the second DELETE leaves the row without its records.  After
\* the deletion fetch_event of the id reports RowNotFound, and the events and
\* attendance records of other ids are as they were, fetched as before.
C12_DeleteCascade ==
    running =>
    \A e \in events : \A m \in Conversations(e.creator) :
        LET q == Activation(e.creator, "deleted", e.id, m)
            own == {a \in attendees : a.event_id = e.id}
            N == handle_callback_query(Current, NoFault, q)
        IN \A f \in Faults(N) :
            LET R == handle_callback_query(Current, f, q) IN
            /\ R.events \in {events, events \ {e}}
            /\ R.attendees \in {attendees, attendees \ own}
            /\ R.events # events => R.attendees = attendees \ own
            /\ f.db \in 1..3 => (R.events = events /\ R.attendees = attendees)
            /\ f.db = 4 => /\ R.events = events
                           /\ R.attendees = attendees \ own
                           /\ R.res = "Database"
            /\ f.db = 0 =>
                /\ R.events = events \ {e}
                /\ R.attendees = attendees \ own
                /\ fetch_event(Then(R), NoFault, e.id).out = "RowNotFound"
                /\ \A o \in events :
                    o # e => LET F == fetch_event(Then(R), NoFault, o.id) IN
                             /\ F.out = "ok"
                             /\ F.event = fetch_event(Current, NoFault, o.id).event

\* event 2 was stored with two attendance records and has been deleted:
\* neither its row nor a record of it is left, event 1 and its record are
\* there, and the deletion was reported
C12_Witness ==
    /\ update_id = 1
    /\ seq = 2
    /\ result = "Ok"
    /\ events = {StoredEvent(1, 7, 100, 15)}
    /\ attendees = {Attendee(1, 8, "accepted")}
    /\ Len(sent) = 2
    /\ sent[1].call = "delete"
    /\ sent[2].text = DELETED_MESSAGE
    /\ fetch_event(Current, NoFault, 2).out = "RowNotFound"

StaleIds == EventIds \ ExistingIds

Actions == {"accepted", "declined", "deleted"}

\* C13: an accepted_<id>, declined_<id> or deleted_<id> activation whose id
\* names no stored event is a silent no-op: the handler returns success,
\* sends or edits no message and creates, changes or deletes no attendance
\* record or event.  Stated of the bot of main.rs.
C13_StaleControl ==
    running =>
    \A u \in Users, a \in Actions, i \in StaleIds :
        \A m \in OwnCallbackMessages(u) :
            LET R == main_handle_callback_query(Current, NoFault, Activation(u, a, i, m))
            IN /\ R.res = "Ok"
               /\ R.sent = <<>> /\ R.tgc = 0
               /\ R.events = events /\ R.attendees = attendees /\ R.seq = seq

\* C13 (bot.rs): the same statement of the library bot, under every fault
\* plan; only a failure of the SELECT that looks the event up is an error
C13_StaleControl_Library ==
    running =>
    \A u \in Users, a \in Actions, i \in StaleIds :
        \A m \in OwnCallbackMessages(u) :
            LET q == Activation(u, a, i, m)
                N == handle_callback_query(Current, NoFault, q)
            IN /\ N.res = "Ok" /\ N.dbc = 1
               /\ \A f \in Faults(N) :
                    LET R == handle_callback_query(Current, f, q) IN
                    /\ R.sent = <<>> /\ R.tgc = 0
                    /\ R.events = events /\ R.attendees = attendees /\ R.seq = seq
                    /\ R.event_contexts = event_contexts
                    /\ f.db = 0 => R.res = "Ok"

\* the day a stored event_date names, counted in a calendar of 31-day months,
\* and the second of that day
DayOf(d) == (d[1] * 12 + d[2]) * 31 + d[3]

SecondOf(d) == (d[4] * 60 + d[5]) * 60 + d[6]

Earlier(a, b) == DayOf(a) < DayOf(b) \/ (DayOf(a) = DayOf(b) /\ SecondOf(a) < SecondOf(b))

IsPrefix(a, b) == Len(a) <= Len(b) /\ \A i \in 1..Len(a) : a[i] = b[i]

\* C14: /list in a conversation sends one message per event whose chat_id is
\* the conversation, each with the event as it is stored, in ascending
\* event_date order whichever event was inserted first; it sends the single
\* notice that no events are scheduled exactly when there is no such event;
\* no event of another conversation is listed.  A failure stops the listing
\* where it is, and storage is never changed.
C14_ListByDate ==
    running =>
    \A u \in Users, c \in Chats :
        (c \in Groups \/ c = u) =>
            LET m == TextMessage(u, c, "/list")
                here == {e \in events : e.chat_id = c}
                N == handle_message(Current, NoFault, m)
            IN /\ N.res = "Ok"
               /\ here = {} <=> N.sent = <<Sent(c, NO_EVENTS_MESSAGE)>>
               /\ here # {} =>
                    /\ Len(N.sent) = Cardinality(here)
                    /\ \A i \in 1..Len(N.sent) :
                        /\ N.sent[i].call = "send"
                        /\ N.sent[i].chat_id = c
                        /\ N.sent[i].text = EVENT_TEXT
                        /\ \E e \in here :
                            N.sent[i].event =
                                <<LoadEvent(e, {a \in attendees : a.event_id = e.id})>>
                    /\ \A i \in 1..Len(N.sent), j \in 1..Len(N.sent) :
                        i < j => Earlier(N.sent[i].event[1].event_date,
                                         N.sent[j].event[1].event_date)
               /\ \A f \in Faults(N) :
                    LET R == handle_message(Current, f, m) IN
                    /\ IsPrefix(R.sent, N.sent)
                    /\ R.events = events /\ R.attendees = attendees /\ R.seq = seq
                    /\ f # NoFault => R.res # "Ok"

\* group 100 holds event 1 of the 15th and event 2 of the 14th, inserted
\* later: /list has sent event 2 first and event 1 second
C14_Witness ==
    /\ result = "Ok"
    /\ Len(sent) = 2
    /\ sent[1].call = "send" /\ sent[1].chat_id = 100 /\ sent[1].event[1].id = 2
    /\ sent[2].call = "send" /\ sent[2].chat_id = 100 /\ sent[2].event[1].id = 1
    /\ sent[1].event[1].event_date = <<2025, 8, 14, 19, 0, 0>>
    /\ sent[2].event[1].event_date = <<2025, 8, 15, 19, 0, 0>>

\* the messages of the last update that render an event
Rendered == {i \in 1..Len(sent) : sent[i].event # <<>>}

\* C15: every control layout rendered (on creation, by /list, by /myevents
\* and on the re-rendering after an RSVP) holds the Accept and the Decline
\* control of the event's id, nothing of another id, and the Delete control
\* exactly when the message is in a private conversation and that
\* conversation is the creator's; no message in a group carries Delete.
C15_Controls ==
    \A i \in Rendered :
        LET event == sent[i].event[1]
            keyboard == sent[i].keyboard
        IN /\ CallbackData("accepted", event.id) \in keyboard
           /\ CallbackData("declined", event.id) \in keyboard
           /\ keyboard \subseteq {CallbackData(a, event.id) : a \in Actions}
           /\ CallbackData("deleted", event.id) \in keyboard
                <=> (sent[i].chat_id \in Users /\ sent[i].chat_id = event.creator)
           /\ sent[i].chat_id \in Groups => CallbackData("deleted", event.id) \notin keyboard

\* an event was created: the post to its group carries Accept and Decline
\* only, the post to the creator's private conversation carries Delete too
C15_Witness ==
    /\ Len(sent) = 3
    /\ Rendered = {1, 2}
    /\ sent[1].chat_id \in Groups
    /\ sent[1].keyboard = {CallbackData("accepted", seq), CallbackData("declined", seq)}
    /\ sent[2].chat_id = sent[2].event[1].creator
    /\ CallbackData("deleted", seq) \in sent[2].keyboard

\* the plan in which the first platform call of the run fails with err
EditFails(err) == [tg |-> 1, err |-> err, tg2 |-> FALSE, db |-> 0]

\* C20: after an RSVP toggle, an edit of the event message that the platform
\* rejects with error 400 "message is not modified" is treated as success:
\* the handler returns Ok; every other failure of the edit, another error 400
\* included, is returned as a Telegram error.  The toggle stays applied.
C20_NotModified ==
    running =>
    \A u \in Users, s \in Statuses, e \in ExistingIds :
        \A m \in Conversations(u) :
            LET q == Activation(u, s, e, m)
                N == handle_callback_query(Current, NoFault, q)
            IN /\ N.res = "Ok"
               /\ Len(N.sent) = 1 /\ N.sent[1].call = "edit"
               /\ \A err \in TgErrors :
                    LET R == handle_callback_query(Current, EditFails(err), q) IN
                    /\ R.sent = <<>>
                    /\ R.attendees = Toggled(attendees, e, u, s)
                    /\ err = "400nm" => R.res = "Ok"
                    /\ err # "400nm" => R.res = "Telegram"

\* user 8 declined and accepted event 1 again: the record is what it was, and
\* the edit, rejected as not modified, left the update successful with
\* nothing sent
C20_Witness ==
    /\ update_id = 2
    /\ result = "Ok"
    /\ sent = <<>>
    /\ attendees = {Attendee(1, 8, "accepted")}
    /\ LET q == Activation(8, "declined", 1, GroupMessage(100))
           R == handle_callback_query(Current, EditFails("400nm"), q)
       IN R.res = "Ok" /\ R.sent = <<>> /\ R.tgc = 1
          /\ R.attendees = {Attendee(1, 8, "declined")}

\* the places of a text where a reserved character has no escape character
\* directly before it
Unescaped(text) ==
    {i \in 1..Len(text) :
        text[i] \in special_chars /\ (i = 1 \/ text[i - 1] # "\\")}

\* C16: the text format_message produces holds no unescaped reserved
\* character that comes from user-controlled input: in the title, the
\* description, the schedule and the location as they are embedded, and in
\* whatever else of user-controlled text is embedded (the attendees' names),
\* every reserved character has an escape character before it.
C16_NoUnescaped ==
    \A i \in 1..Len(rendered) :
        rendered[i].from # "template" => Unescaped(rendered[i].text) = {}

\* C16 (the four fields): what passes through escape_markdown is escaped
C16_FieldsEscaped ==
    \A i \in 1..Len(rendered) :
        rendered[i].from = "field" => Unescaped(rendered[i].text) = {}

\* the text with every escape character that stands directly before a
\* reserved character taken out: the text that escape_markdown turns into x
RECURSIVE unescape(_)
unescape(x) ==
    IF x = <<>> THEN <<>>
    ELSE IF Len(x) >= 2 /\ x[1] = "\\" /\ x[2] \in special_chars
         THEN <<x[2]>> \o unescape(SubSeq(x, 3, Len(x)))
         ELSE <<x[1]>> \o unescape(Tail(x))

\* C17: for every text x over reserved characters, the escape character and
\* ordinary characters, escaping the unescaped form of x gives the text that
\* escaping x gives: escape(unescape(x)) = escape(x).
C17_RoundTrip ==
    (subject.kind = "text" /\ rendered # <<>>) =>
        escape_markdown(unescape(subject.text)) = rendered[1].text

\* C17 (the other way round): unescape takes back what escape_markdown added
C17_Inverse ==
    (subject.kind = "text" /\ rendered # <<>>) =>
        unescape(rendered[1].text) = subject.text

----------------------------------------------------------------------------
(* bot.rs: run, with the platform it polls.  The platform numbers the       *)
(* updates it receives; a get_updates request with an offset confirms the   *)
(* updates below the offset, and the answer is every update not confirmed.  *)
(* A request that fails is reported with eprintln and changes nothing.      *)

NoQuery == [from |-> 0, data |-> <<"">>, message |-> NoMessage]

NoTextMessage == [from |-> 0, chat_id |-> 0, is_private |-> FALSE, text |-> NoText]

\* update.content: a message, a callback query, or a content run() passes over
PollContents ==
    {[kind |-> "Message", message |-> TextMessage(7, 100, "/help"), query |-> NoQuery],
     [kind |-> "CallbackQuery", message |-> NoTextMessage,
      query |-> Activation(7, "accepted", 1, GroupMessage(100))],
     [kind |-> "other", message |-> NoTextMessage, query |-> NoQuery]}

handle_update(X, f, content) ==
    CASE content.kind = "CallbackQuery" -> handle_callback_query(X, f, content.query)
      [] content.kind = "Message" -> handle_message(X, f, content.message)
      [] OTHER -> Ok(X)

PollInit ==
    /\ event_contexts = {}
    /\ events = {StoredEvent(1, 7, 100, 15)} /\ attendees = {} /\ seq = 1
    /\ sent = <<>>
    /\ result = "Ok"
    /\ running = TRUE
    /\ update_id = 0
    /\ Unrendered
    /\ Unpolled

\* the platform receives an update
Arrive ==
    /\ Len(updates) < MaxPolled
    /\ \E content \in PollContents :
        updates' = Append(updates, [update_id |-> Len(updates) + 1, content |-> content])
    /\ UNCHANGED <<event_contexts, events, attendees, seq, sent, result, running,
                   update_id, confirmed, offset, response, handled>>
    /\ UNCHANGED render_vars

\* self.api.get_updates(&update_params), answered
GetUpdates ==
    /\ running
    /\ response = <<>>
    /\ LET upto == IF offset > confirmed + 1 THEN offset - 1 ELSE confirmed IN
       /\ confirmed' = upto
       /\ response' = SubSeq(updates, upto + 1, Len(updates))
    /\ UNCHANGED <<event_contexts, events, attendees, seq, sent, result, running,
                   update_id, updates, offset, handled>>
    /\ UNCHANGED render_vars

\* one turn of for update in response.result: the handler with its ?, then
\* the new update_params
HandleUpdate ==
    /\ running
    /\ response # <<>>
    /\ Len(handled) < MaxHandled
    /\ LET update == Head(response)
           N == handle_update(Current, NoFault, update.content)
       IN \E f \in OwnFaults(N) :
           LET X == IF f = NoFault THEN N ELSE handle_update(Current, f, update.content)
           IN /\ event_contexts' = X.event_contexts
              /\ events' = X.events
              /\ attendees' = X.attendees
              /\ seq' = X.seq
              /\ sent' = X.sent
              /\ result' = X.res
              /\ update_id' = update.update_id
              /\ IF X.res = "Ok"
                 THEN /\ running' = TRUE
                      /\ offset' = update.update_id + 1
                      /\ response' = Tail(response)
                      /\ handled' = Append(handled, update.update_id)
                 ELSE /\ running' = FALSE
                      /\ offset' = 0
                      /\ response' = <<>>
                      /\ handled' = handled
    /\ UNCHANGED <<updates, confirmed>>
    /\ UNCHANGED render_vars

\* the process ends (run() returned, or a crash) and is started again:
\* lib.rs run() opens the database, makes a new Bot and calls Bot::run
Restart ==
    /\ event_contexts' = {}
    /\ offset' = 0
    /\ response' = <<>>
    /\ running' = TRUE
    /\ sent' = <<>>
    /\ result' = "Ok"
    /\ UNCHANGED <<events, attendees, seq, update_id, updates, confirmed, handled>>
    /\ UNCHANGED render_vars

PollNext == Arrive \/ GetUpdates \/ HandleUpdate \/ Restart

PollSpec == PollInit /\ [][PollNext]_vars

\* C18: a storage or platform error raised while handling one update aborts
\* only that update: the polling loop keeps running (and so every later
\* update is still retrieved and handled).
C18_LoopContinues ==
    result \in {"Database", "Telegram"} => running

\* C19: the cursor is advanced to update_id + 1 after each update has been
\* processed, so that after a crash and restart no update that was already
\* handled is handled a second time.
C19_HandledOnce ==
    \A i \in 1..Len(handled), j \in 1..Len(handled) :
        i # j => handled[i] # handled[j]

\* C19 (the cursor alone): while run() is running, the cursor is 0 or one
\* more than the update handled last, and only HandleUpdate moves it forward
C19_CursorFollows ==
    (running /\ offset # 0) => (handled # <<>> /\ offset = handled[Len(handled)] + 1)

----------------------------------------------------------------------------
(* Properties, continued *)

\* the run R made no call and changed nothing
Ignored(R) ==
    /\ R.res = "Ok"
    /\ R.sent = <<>> /\ R.tgc = 0 /\ R.dbc = 0
    /\ R.event_contexts = event_contexts
    /\ R.events = events /\ R.attendees = attendees /\ R.seq = seq

\* C21 as claimed: text that is not a command is routed to the Draft state
\* machine when the sender has a Draft, and is otherwise silently ignored.
C21_Routed ==
    running =>
    \A u \in Users, c \in Chats, t \in FreeTexts :
        (c \in Groups \/ c = u) =>
            LET R == handle_message(Current, NoFault, TextMessage(u, c, t)) IN
            IF contains_key(event_contexts, u)
            THEN R = handle_event_creation(Current, NoFault, u, c, t) /\ R.sent # <<>>
            ELSE Ignored(R)

\* C21: text that is not one of the five commands is routed to the Draft
\* state machine when the sender has a Draft and writes in the private
\* conversation: the run is the run of handle_event_creation and sends a
\* prompt.  In every other case, a sender with a Draft who writes in a group
\* included, it is silently ignored: no Draft and nothing in storage changes
\* and no message is sent.
C21_RoutedInPrivate ==
    running =>
    \A u \in Users, c \in Chats, t \in FreeTexts :
        (c \in Groups \/ c = u) =>
            LET m == TextMessage(u, c, t)
                N == handle_message(Current, NoFault, m)
            IN IF contains_key(event_contexts, u) /\ c = u
               THEN /\ N.sent # <<>>
                    /\ \A f \in Faults(N) :
                        handle_message(Current, f, m)
                            = handle_event_creation(Current, f, u, c, t)
               ELSE Ignored(N)

\* user 7 began a Draft from group 100 and then wrote free text in a group:
\* the Draft still awaits its title and nothing was sent
C21_Witness ==
    /\ update_id = 2
    /\ result = "Ok"
    /\ sent = <<>>
    /\ event_contexts = {[key |-> 7, value |-> EventContext(100, EventDraft, AwaitingTitle)]}
    /\ Ignored(handle_message(Current, NoFault, TextMessage(7, 100, "Picnic")))

\* C22: when a Draft is committed the event is posted first to the group the
\* dialogue began in, with Accept and Decline and no Delete, then to the
\* creator's private chat with Accept, Decline and Delete, and then the
\* confirmation is sent.  Under every failure the messages sent are the
\* beginning of that sequence up to the failed call, and whenever a post was
\* made or attempted the event's row is already in storage: a failure of the
\* first post leaves the row stored and nothing posted, a failure of the
\* INSERT leaves nothing posted.
C22_PostOrder ==
    running =>
    \A u \in Users, t \in Parsable :
        InAwaitingTime(u) =>
            LET m == TextMessage(u, u, t)
                row == Committed(u, get(event_contexts, u), t)
                order == <<Posted(row.chat_id, row, {"accepted", "declined"}),
                           Posted(u, row, {"accepted", "declined", "deleted"}),
                           Sent(u, CREATED_MESSAGE)>>
                N == handle_message(Current, NoFault, m)
            IN /\ row \notin events
               /\ row.chat_id # u
               /\ N.sent = order
               /\ \A f \in Faults(N) :
                    LET R == handle_message(Current, f, m) IN
                    /\ IsPrefix(R.sent, order)
                    /\ f.tg # 0 => Len(R.sent) = f.tg - 1
                    /\ f.db # 0 => R.sent = <<>>
                    /\ (R.tgc > 0) => row \in R.events
                    /\ f.db = 1 => (R.tgc = 0 /\ row \notin R.events)

\* the post to user 7's private chat failed after the event was committed:
\* the row is stored and only the group's post, without Delete, was made
C22_Witness ==
    /\ update_id = 5
    /\ result = "Telegram"
    /\ ~contains_key(event_contexts, 7)
    /\ \E e \in events :
        /\ e.creator = 7 /\ e.id = seq
        /\ sent = <<Posted(e.chat_id, e, {"accepted", "declined"})>>

\* C23: /myevents, written in any conversation, sends to the requester's
\* private conversation one message per event the requester created and none
\* for an event of another creator, each with the event as it is stored and
\* with the controls of the private view (Accept, Decline and Delete); it
\* sends the single notice that the user created no events exactly when there
\* is no such event.  A failure stops the listing where it is, and storage is
\* never changed.
C23_MyEvents ==
    running =>
    \A u \in Users, c \in Chats :
        (c \in Groups \/ c = u) =>
            LET m == TextMessage(u, c, "/myevents")
                mine == {e \in events : e.creator = u}
                N == handle_message(Current, NoFault, m)
            IN /\ N.res = "Ok"
               /\ mine = {} <=> N.sent = <<Sent(u, NO_MY_EVENTS_MESSAGE)>>
               /\ mine # {} =>
                    /\ Len(N.sent) = Cardinality(mine)
                    /\ \A e \in mine : \E i \in 1..Len(N.sent) :
                        N.sent[i] =
                            Message("send", u, EVENT_TEXT,
                                    <<LoadEvent(e, {a \in attendees : a.event_id = e.id})>>,
                                    {CallbackData(a, e.id) : a \in Actions})
               /\ \A f \in Faults(N) :
                    LET R == handle_message(Current, f, m) IN
                    /\ IsPrefix(R.sent, N.sent)
                    /\ R.events = events /\ R.attendees = attendees /\ R.seq = seq
                    /\ R.event_contexts = event_contexts
                    /\ f # NoFault => R.res # "Ok"

\* events 1 and 2 are stored, event 1 created by user 7 and event 2 by user
\* 8: /myevents of user 8 has sent event 2 alone, with Delete, to chat 8
C23_Witness ==
    /\ result = "Ok"
    /\ \E e \in events : e.id = 1 /\ e.creator = 7
    /\ \E e \in events : e.id = 2 /\ e.creator = 8
    /\ Len(sent) = 1
    /\ sent[1].call = "send" /\ sent[1].chat_id = 8
    /\ sent[1].event # <<>> /\ sent[1].event[1].id = 2
    /\ CallbackData("deleted", 2) \in sent[1].keyboard

\* C24: the two DELETEs of delete_event and the SELECT and write of
\* update_attendance are each atomic.  Whatever statement or platform call
\* fails, a deletion by the creator ends with the event's row and all its
\* attendance records removed or with all of them left, never with the
\* records removed and the row left; and an RSVP ends with the attendance
\* table as it was or toggled on the record the SELECT saw.
C24_Atomic ==
    running =>
    /\ \A e \in events : \A m \in Conversations(e.creator) :
        LET q == Activation(e.creator, "deleted", e.id, m)
            own == {a \in attendees : a.event_id = e.id}
            N == handle_callback_query(Current, NoFault, q)
        IN \A f \in Faults(N) :
            LET R == handle_callback_query(Current, f, q) IN
            \/ R.events = events /\ R.attendees = attendees
            \/ R.events = events \ {e} /\ R.attendees = attendees \ own
    /\ \A u \in Users, s \in Statuses, e \in ExistingIds :
        \A m \in OwnCallbackMessages(u) :
            LET q == Rsvp(u, s, e, m)
                N == handle_callback_query(Current, NoFault, q)
            IN \A f \in Faults(N) :
                handle_callback_query(Current, f, q).attendees
                    \in {attendees, Toggled(attendees, e, u, s)}

\* the rows of after that have the id of a row of before are that row
RowsKept(before, after) ==
    \A e \in before : \A n \in after : n.id = e.id => n = e

\* in every state: no handler run changes a stored row, and the runs of an
\* RSVP, /list, /myevents, /cancel and /help leave the table as it is
C25_Runs ==
    running =>
    /\ \A m \in Messages :
        IsMessage(m) =>
            LET N == handle_message(Current, NoFault, m) IN
            \A f \in Faults(N) :
                LET R == handle_message(Current, f, m) IN
                /\ RowsKept(events, R.events)
                /\ m.text \in {"/list", "/myevents", "/cancel", "/help"} =>
                        R.events = events
    /\ \A q \in CallbackQueries :
        IsCallbackQuery(q) =>
            LET N == handle_callback_query(Current, NoFault, q) IN
            \A f \in Faults(N) :
                LET R == handle_callback_query(Current, f, q) IN
                /\ RowsKept(events, R.events)
                /\ q.data[1] \in Statuses => R.events = events

\* C25: events are only created and deleted, never updated: an event row that
\* is stored before and after a step is the same row, with every field as it
\* was, and no run of a handler changes a row, the commit of a Draft on a
\* store that holds events included; an RSVP, a listing, a cancellation and
\* the help request leave the whole events table unchanged.
C25_NeverUpdated ==
    /\ []C25_Runs
    /\ [][RowsKept(events, events')]_vars

\* user 8 has changed the answer on event 1 from accepted to declined: the
\* attendance record changed and the event row is as it was stored
C25_Witness ==
    /\ update_id = 1
    /\ result = "Ok"
    /\ events = {StoredEvent(1, 7, 100, 15)}
    /\ attendees = {Attendee(1, 8, "declined")}

\* the fault plan in which the n-th storage statement of the run fails
DbFault(n) == [tg |-> 0, err |-> "ok", tg2 |-> FALSE, db |-> n]

\* C26: when the INSERT that commits a Draft fails, the handler returns the
\* Database kind of error, no event is created (the table and the id
\* sequence are as they were) and nothing is posted or confirmed, and the
\* Draft is not put back: the user has no Draft afterwards, while the Drafts
\* of the other users are as they were.
C26_CommitFails ==
    running =>
    \A u \in Users, t \in Parsable :
        InAwaitingTime(u) =>
            LET R == handle_message(Current, DbFault(1), TextMessage(u, u, t)) IN
            /\ R.res = "Database"
            /\ R.events = events /\ R.seq = seq /\ R.attendees = attendees
            /\ R.sent = <<>> /\ R.tgc = 0
            /\ ~contains_key(R.event_contexts, u)
            /\ R.event_contexts = event_contexts \ Entries(event_contexts, u)

\* user 7 answered the date prompt and the INSERT failed: the run ended with
\* a Database error, the store is still empty and user 7 has no Draft
C26_Witness ==
    /\ update_id = 5
    /\ result = "Database"
    /\ ~running
    /\ events = {} /\ seq = 0
    /\ sent = <<>>
    /\ ~contains_key(event_contexts, 7)

\* tokens with a recognized prefix whose id part is no decimal integer
MalformedDatas == {<<a, t>> : a \in Actions, t \in {"x", "", "1x", "1_2"}}

\* tokens without a recognized prefix: another prefix, a recognized word
\* without the '_', and the absent token
UnrecognizedDatas == {<<"other", "1">>, <<"accepted">>, <<"deleted">>, <<"">>}

\* every plan of one failing call, whether or not the run makes the call
AnyFault ==
    {NoFault} \cup {DbFault(n) : n \in 1..2}
    \cup {[tg |-> 1, err |-> e, tg2 |-> FALSE, db |-> 0] : e \in TgErrors}

\* C27: an activation whose token has a recognized prefix and an id part that
\* is no decimal integer returns the Parse error and changes nothing: no
\* statement is executed, no message is sent or edited, storage and Drafts
\* are as they were.  An activation whose token has no recognized prefix, the
\* absent token included, is ignored with success, equally without effect.
C27_MalformedToken ==
    running =>
    \A u \in Users, f \in AnyFault : \A m \in OwnCallbackMessages(u) :
        /\ \A d \in MalformedDatas :
            LET R == handle_callback_query(Current, f,
                                           [from |-> u, data |-> d, message |-> m])
            IN R = Err(Current, "Parse")
        /\ \A d \in UnrecognizedDatas :
            LET R == handle_callback_query(Current, f,
                                           [from |-> u, data |-> d, message |-> m])
            IN R = Ok(Current)

\* an activation with the token accepted_x has ended the run with the Parse
\* error: event 1 and its attendance record are as they were stored
C27_Witness ==
    /\ update_id = 1
    /\ result = "Parse"
    /\ ~running
    /\ sent = <<>>
    /\ events = {StoredEvent(1, 7, 100, 15)}
    /\ attendees = {Attendee(1, 8, "accepted")}
    /\ event_contexts = {}

\* C28: in every reachable state every attendance record references a stored
\* event, also in the state a deletion leaves when a failure stops it between
\* its two DELETEs (the records go first) and after an RSVP on an id whose
\* event has been deleted.
C28_Referential ==
    \A a \in attendees : \E e \in events : e.id = a.event_id

\* the deletion of event 2 was stopped by the failure of DELETE FROM events:
\* both rows are stored and of the three attendance records the one of
\* event 1 is left
C28_Witness ==
    /\ update_id = 1
    /\ result = "Database"
    /\ {e.id : e \in events} = {1, 2}
    /\ attendees = {Attendee(1, 8, "accepted")}

----------------------------------------------------------------------------
(* bot.rs: run, followed through a deletion and the creation after it: one *)
(* user holds the dialogue, the other answers, storage statements may fail *)

SequenceMessages ==
    {TextMessage(7, 100, "/create")} \cup {TextMessage(7, 7, t) : t \in FreeTexts}

SequenceQueries ==
    {Activation(7, "deleted", i, PrivateMessage(7)) : i \in EventIds}
    \cup {Rsvp(8, "accepted", i, GroupMessage(100)) : i \in EventIds}

SequenceHandleMessage ==
    /\ running
    /\ update_id < MaxSequenceUpdates
    /\ \E message \in SequenceMessages :
        LET N == handle_message(Current, NoFault, message) IN
        /\ N.seq <= MaxEvents + 1
        /\ \E f \in {g \in OwnFaults(N) : g.tg = 0} :
            Becomes(handle_message(Current, f, message))

SequenceHandleCallbackQuery ==
    /\ running
    /\ update_id < MaxSequenceUpdates
    /\ \E query \in SequenceQueries :
        LET N == handle_callback_query(Current, NoFault, query) IN
        \E f \in {g \in OwnFaults(N) : g.tg = 0} :
            Becomes(handle_callback_query(Current, f, query))

SequenceNext == SequenceHandleMessage \/ SequenceHandleCallbackQuery

SequenceSpec == Init /\ [][SequenceNext]_vars

\* the ids assigned so far are 1..seq: every stored id is one of them
C29_Assigned ==
    /\ \A e \in events : e.id \in 1..seq
    /\ \A a \in events, b \in events : a.id = b.id => a = b

\* a step assigns at most the next id of the sequence, and an id that was
\* assigned and is not stored stays unstored
C29_Step ==
    /\ seq' >= seq
    /\ \A e \in events' \ events : e.id > seq /\ e.id = seq'
    /\ \A i \in 1..seq : i \notin {e.id : e \in events} => i \notin {e.id : e \in events'}

\* C29: event ids are unique and never reused: the id of a new event is
\* greater than every id assigned before, also after deletions and after a
\* failed INSERT, so the id of a deleted event never names a stored event
\* again and a control token of a deleted event stays stale.
C29_NeverReused ==
    /\ []C29_Assigned
    /\ [][C29_Step]_vars

\* event 1 was deleted and an event was created after that: it has the id 2,
\* and the id 1 names no stored event
C29_Witness ==
    /\ seq = 2
    /\ {e.id : e \in events} = {2}
    /\ result = "Ok"
    /\ Len(sent) = 3
    /\ sent[3] = Sent(7, CREATED_MESSAGE)
    /\ fetch_event(Current, NoFault, 1).out = "RowNotFound"

\* the users of a loaded list
Listed(list) == {list[i] : i \in 1..Len(list)}

\* no user is twice in the list
Once(list) == \A i \in 1..Len(list), j \in 1..Len(list) : list[i] = list[j] => i = j

\* the accepted and declined lists of event show the attendance records rows
Partitioned(event, rows) ==
    /\ Once(event.accepted) /\ Once(event.declined)
    /\ Listed(event.accepted) \cap Listed(event.declined) = {}
    /\ Listed(event.accepted) \cup Listed(event.declined) = {a.user_id : a \in rows}
    /\ \A a \in rows :
        /\ a.status = "accepted" => a.user_id \in Listed(event.accepted)
        /\ a.status = "declined" => a.user_id \in Listed(event.declined)

\* C30: an event loaded from storage, in every reachable state and by every
\* message that renders one (a post, a listing, the re-rendering after an
\* RSVP), has disjoint accepted and declined lists without a user twice,
\* which together hold exactly the users with an attendance record of the
\* event, each in the list of the stored status.
C30_Lists ==
    /\ \A e \in events :
        LET F == fetch_event(Current, NoFault, e.id) IN
        /\ F.out = "ok"
        /\ Partitioned(F.event[1], {a \in attendees : a.event_id = e.id})
    /\ \A i \in Rendered :
        LET event == sent[i].event[1] IN
        /\ Once(event.accepted) /\ Once(event.declined)
        /\ Listed(event.accepted) \cap Listed(event.declined) = {}
        /\ (\E e \in events : e.id = event.id) =>
                Partitioned(event, {a \in attendees : a.event_id = event.id})

\* user 8 had accepted event 1 and has changed to declined after user 7
\* accepted: the message was edited to show 7 as accepted and 8 as declined
C30_Witness ==
    /\ result = "Ok"
    /\ attendees = {Attendee(1, 7, "accepted"), Attendee(1, 8, "declined")}
    /\ Len(sent) = 1
    /\ sent[1].call = "edit"
    /\ sent[1].event[1].accepted = <<7>>
    /\ sent[1].event[1].declined = <<8>>

----------------------------------------------------------------------------
(* Properties: frames, precedence and the two bots *)

\* C31: an RSVP by user u on event id e, stored or not, under every failure,
\* changes at most the attendance record of the pair (e, u): the records of
\* every other pair are the records stored before, and every event row, the
\* id sequence and every user's Draft are unchanged.
C31_RsvpFrame ==
    running =>
    \A u \in Users, s \in Statuses, e \in EventIds :
      \A m \in OwnCallbackMessages(u) :
        LET q == Rsvp(u, s, e, m)
            N == handle_callback_query(Current, NoFault, q)
        IN \A f \in Faults(N) :
            LET R == handle_callback_query(Current, f, q) IN
            /\ R.attendees \ Record(R.attendees, e, u)
                    = attendees \ Record(attendees, e, u)
            /\ R.events = events /\ R.seq = seq
            /\ R.event_contexts = event_contexts

\* user 7 holds a Draft and user 8 has withdrawn the acceptance of event 1:
\* the record of (1, 8) is gone, the record of (1, 7), the event row and the
\* Draft are there
C31_Witness ==
    /\ result = "Ok"
    /\ contains_key(event_contexts, 7)
    /\ events = {StoredEvent(1, 7, 100, 15)}
    /\ attendees = {Attendee(1, 7, "declined")}
    /\ Len(sent) = 1
    /\ sent[1].call = "edit"
    /\ sent[1].event[1].declined = <<7>> /\ sent[1].event[1].accepted = <<>>

\* C32: the Drafts of different users are independent: in every reachable
\* state, which the two users' messages reach in every interleaving, the
\* handling of a message from user A (a command, free text or no text, in a
\* group or in A's private conversation, under every failure) leaves the
\* Draft of every other user B as it was: none is created, changed or removed.
C32_Independent ==
    running =>
    \A m \in Messages :
        IsMessage(m) =>
            LET N == handle_message(Current, NoFault, m) IN
            \A f \in Faults(N) :
                LET R == handle_message(Current, f, m) IN
                \A B \in Users \ {m.from} :
                    Entries(R.event_contexts, B) = Entries(event_contexts, B)

\* both users hold a Draft begun in group 100; user 7 has answered the title
\* prompt and awaits the description prompt's answer, the Draft of user 8 is
\* as /create left it
C32_Witness ==
    /\ update_id = 3
    /\ result = "Ok"
    /\ sent = <<Sent(7, DESCRIPTION_PROMPT)>>
    /\ contains_key(event_contexts, 7)
    /\ get(event_contexts, 7).state = AwaitingDescription
    /\ Entries(event_contexts, 8)
        = {[key |-> 8, value |-> EventContext(100, EventDraft, AwaitingTitle)]}

\* the activations that carry no accessible message
Unseen == {m \in CallbackMessages : m.kind # "message"}

\* C33: a deleted_<id> activation by the creator of a stored event deletes the
\* event only when it carries an accessible message.  With the message absent
\* or inaccessible the handler returns success, makes no platform call and
\* leaves the event and its attendance records in storage (a failed SELECT
\* is the only error, and it changes nothing either); with an accessible
\* message and no failure the event and its records are removed.
C33_NeedsMessage ==
    running =>
    \A e \in events :
        /\ \A m \in Unseen :
            LET q == Activation(e.creator, "deleted", e.id, m)
                N == handle_callback_query(Current, NoFault, q)
            IN /\ N.res = "Ok"
               /\ \A f \in Faults(N) :
                    LET R == handle_callback_query(Current, f, q) IN
                    /\ R.events = events /\ R.attendees = attendees /\ R.seq = seq
                    /\ R.sent = <<>> /\ R.tgc = 0
                    /\ f.db # 0 => R.res = "Database"
        /\ \A m \in Conversations(e.creator) :
            LET N == handle_callback_query(Current, NoFault,
                                           Activation(e.creator, "deleted", e.id, m))
            IN /\ e \notin N.events
               /\ \A a \in N.attendees : a.event_id # e.id

\* user 7, the creator of event 1, activated deleted_1 without an accessible
\* message: the run succeeded, nothing was sent, and event 1 and its
\* attendance record are stored
C33_Witness ==
    /\ update_id = 1
    /\ result = "Ok"
    /\ sent = <<>>
    /\ events = {StoredEvent(1, 7, 100, 15)}
    /\ attendees = {Attendee(1, 8, "accepted")}
    /\ \A m \in Unseen :
        handle_callback_query(Current, NoFault, Activation(7, "deleted", 1, m))
            = Ok(fetch_event(Current, NoFault, 1))

\* the Draft of context after text was stored in the field its state awaits
Answered(context, text) ==
    CASE context.state = AwaitingTitle ->
            [context EXCEPT !.draft.title = text, !.state = AwaitingDescription]
      [] context.state = AwaitingDescription ->
            [context EXCEPT !.draft.description = text, !.state = AwaitingLocation]
      [] context.state = AwaitingLocation ->
            [context EXCEPT !.draft.location = text, !.state = AwaitingTime]

\* the plans in which the first platform call of the run fails
PromptFails == {[tg |-> 1, err |-> e, tg2 |-> FALSE, db |-> 0] : e \in TgErrors}

Undated(rows) ==
    {[id |-> e.id, creator |-> e.creator, title |-> e.title,
      description |-> e.description, location |-> e.location,
      chat_id |-> e.chat_id] : e \in rows}

\* the two runs leave the same Draft table, events and attendance records
SameStores(M, L) ==
    /\ M.event_contexts = L.event_contexts
    /\ Undated(M.events) = Undated(L.events)
    /\ M.attendees = L.attendees

\* C35: on the operations they share the bot of main.rs and the bot of bot.rs
\* behave the same: from every state the binary reaches, a /create, /cancel,
\* /list, /help, a free text or no text, and an accepted_ or declined_
\* activation leave both with the same Draft table, the same events (the
\* format of the stored date apart) and the same attendance records.
C35_SameBehaviour ==
    running =>
    /\ \A m \in Messages :
        (IsMessage(m) /\ m.text # "/myevents") =>
            SameStores(main_handle_message(Current, NoFault, m),
                       handle_message(Current, NoFault, m))
    /\ \A q \in CallbackQueries :
        (IsCallbackQuery(q) /\ q.data[1] \in Statuses) =>
            SameStores(main_handle_callback_query(Current, NoFault, q),
                       handle_callback_query(Current, NoFault, q))

\* the texts the creation dialogue answers with
DialogueTexts ==
    {DESCRIPTION_PROMPT, LOCATION_PROMPT, DATETIME_PROMPT, DATETIME_ERROR,
     CREATED_MESSAGE}

\* C36: recognized commands take precedence over Draft input: while the user
\* has a Draft, in whichever state, a message whose text is exactly /list,
\* /myevents or /help (in a group or in the private conversation) or /create
\* in the private conversation is handled as the command: under every
\* failure the Draft table is as it was (no field holds the text, the state
\* is the same), no event is created, and what is sent is the command's
\* answer and never a prompt of the dialogue.
C36_CommandsFirst ==
    running =>
    \A u \in Users, c \in Chats, t \in {"/list", "/myevents", "/help", "/create"} :
        (/\ contains_key(event_contexts, u)
         /\ c \in Groups \/ c = u
         /\ t = "/create" => c = u) =>
            LET m == TextMessage(u, c, t)
                N == handle_message(Current, NoFault, m)
            IN /\ N.res = "Ok"
               /\ N.sent # <<>>
               /\ t = "/help" => N.sent = <<Sent(c, HELP_TEXT)>>
               /\ t = "/create" => N.sent = <<Sent(u, GROUP_ONLY_MESSAGE)>>
               /\ t = "/list" => N = list_events(Current, NoFault, c, u)
               /\ t = "/myevents" => N = list_my_events(Current, NoFault, u)
               /\ \A f \in Faults(N) :
                    LET R == handle_message(Current, f, m) IN
                    /\ R.event_contexts = event_contexts
                    /\ R.events = events /\ R.attendees = attendees /\ R.seq = seq
                    /\ \A i \in 1..Len(R.sent) : R.sent[i].text \notin DialogueTexts

\* user 7 asked for /help in the private conversation while the Draft awaited
\* its title: the help text was sent and the Draft is as /create left it
C36_Witness ==
    /\ update_id = 2
    /\ result = "Ok"
    /\ sent = <<Sent(7, HELP_TEXT)>>
    /\ event_contexts = {[key |-> 7, value |-> EventContext(200, EventDraft, AwaitingTitle)]}

\* C37: an RSVP on a stored event is applied to storage before the message
\* is re-rendered: whenever the edit is made or attempted the attendance
\* table is already toggled, and the edited message shows the event loaded
\* from the table after the toggle.  The toggle stays applied when the
\* activation carries no accessible message (success, nothing sent), when
\* the edit fails (the Telegram error, or success on "message is not
\* modified") and when the fetch for the re-rendering fails: it is never
\* rolled back; only a failure before or in the write leaves the table as
\* it was.
C37_ToggleThenRender ==
    running =>
    \A u \in Users, s \in Statuses, e \in events :
      \A m \in OwnCallbackMessages(u) :
        LET q == Rsvp(u, s, e.id, m)
            after == Toggled(attendees, e.id, u, s)
            shown == LoadEvent(e, {a \in after : a.event_id = e.id})
            N == handle_callback_query(Current, NoFault, q)
        IN /\ N.res = "Ok"
           /\ N.attendees = after
           /\ after # attendees
           /\ IF m.kind = "message"
              THEN /\ Len(N.sent) = 1
                   /\ N.sent[1].call = "edit"
                   /\ N.sent[1].chat_id = m.chat_id
                   /\ N.sent[1].event = <<shown>>
              ELSE N.sent = <<>> /\ N.tgc = 0
           /\ \A f \in Faults(N) :
                LET R == handle_callback_query(Current, f, q) IN
                /\ R.tgc > 0 => R.attendees = after
                /\ f.tg # 0 =>
                    /\ R.attendees = after
                    /\ R.sent = <<>>
                    /\ R.res = IF f.err = "400nm" THEN "Ok" ELSE "Telegram"
                /\ f.db \in 1..4 => (R.attendees = attendees /\ R.res = "Database")
                /\ f.db > 4 =>
                    /\ R.attendees = after
                    /\ R.sent = <<>>
                    /\ R.res = "Database"

\* user 8 withdrew the acceptance of event 1 and the edit of the message
\* failed: the run ended with the Telegram error, nothing was edited, and
\* the record of (1, 8) is gone from storage
C37_Witness ==
    /\ update_id = 1
    /\ result = "Telegram"
    /\ sent = <<>>
    /\ events = {StoredEvent(1, 7, 100, 15)}
    /\ attendees = {}

====
